---- MODULE Spec2Model ----
(***************************************************************************)
(* Request dispatch core of actix-web2: filters (src/filter.rs), the       *)
(* Resource builder, its construction future and the compiled              *)
(* ResourceService (src/resource.rs), the extractors (src/extractor.rs),   *)
(* the DefaultHeaders middleware (src/middleware/defaultheaders.rs) and    *)
(* the framed route (src/framed_route.rs).                                 *)
(*                                                                         *)
(* Each component has its own specification (SpecFilter, SpecResource,     *)
(* SpecTuple, SpecExtract, SpecHeaders, SpecFramed); the variables of the  *)
(* other components stay at their idle values. SpecResourceService runs    *)
(* the compiled service of a small Resource; SpecTupleLive and             *)
(* SpecResourceLive add the fairness of repeated polling to the tuple join *)
(* and to the construction of the ResourceService.                         *)
(***************************************************************************)
EXTENDS Integers, Sequences, FiniteSets

VARIABLES
    \* ---- filter.rs ----
    filter,      \* the filter value under construction (AnyFilter / AllFilter / NotFilter / leaf)
    fctor,       \* the constructor function that made the filter, with its string arguments
    fargs,       \* the filters handed to Any/All/Not and to each or/and call, in call order
    freq,        \* request of the last Filter::check
    fresult,     \* what the checks of freq returned: the first check and, if it was checked
                 \* again, the second
    fafter,      \* the request as the last check left it
    fcalls,      \* the checks called during the last check, in call order: each the path
                 \* (member indexes from the filter checked) of the filter called
    \* ---- resource.rs ----
    resource,    \* Resource { routes, default } under construction by the builder
    factory_ref, \* Resource.factory_ref: None or ResourceFactory { routes, default }
    afterMw,     \* what the builder registered after a middleware call: "route", "default"
    endpoint,    \* the endpoint handed out by into_new_service (its middleware wrappers) or None
    create,      \* CreateResourceService { fut, default, default_fut } or None
    creturned,   \* what each child construction future (the default's, each route's)
                 \* returned the last time it was polled
    cresult,     \* what the last CreateResourceService::poll returned
    service,     \* ResourceService { routes, default } or None
    request,     \* request of the last ResourceService::call
    checked,     \* indices of the routes whose check ran in the last call, in order
    called,      \* which service's call ran in the last call
    response,    \* the future returned by the last call
    hreturned,   \* what the future inside the response (the route's or the default's)
                 \* returned the last time it was polled
    sready,      \* the last poll_ready of the compiled service: whether its route services
                 \* and default were ready, what ResourceService::poll_ready returned and
                 \* what ResourceEndpointService::poll_ready returned
    presult,     \* what the last poll of the response returned
    \* ---- extractor.rs (tuple_from_req!) ----
    tup,         \* TupleFromRequestN { items, futs } or None
    returned,    \* what each member future returned the last time it was polled
    polled,      \* members polled during the last poll, in order
    skipped,     \* what the future of each member with an empty slot that the last poll
                 \* did not poll would have returned in it
    tresult,     \* what the last poll returned
    \* ---- extractor.rs (Option<T>, Result<T, T::Error>) ----
    wrapped,     \* the future returned by from_request of Option<T> / Result<T, T::Error>, or None
    wreturned,   \* what T's future returned the last time it was polled
    wresult,     \* what the last poll of the wrapping future returned
    \* ---- extractor.rs (PayloadConfig, Bytes, String, Path<T>) ----
    payloadCfg,  \* the PayloadConfig handed to from_request
    payloadIn,   \* the request of the last from_request of Bytes / String
    payloadFut,  \* the Either that from_request returned
    payloadRes,  \* what the last poll of that future returned
    pathIn,      \* the matched params and the type T of the last Path<T>::from_request
    pathOut,     \* the FutureResult it returned
    \* ---- middleware/defaultheaders.rs ----
    inner,       \* Inner { ct, headers } behind the Rc
    rc,          \* strong count of the Rc<Inner>
    panicked,    \* the builder hit expect("Multiple copies exist")
    inflight,    \* futures returned by call that have not resolved yet: the request call was
                 \* given, the calls it made to the inner service, the Inner at that time
    usedInner,   \* the Inner the closure of the last resolved call read through its Rc
    innerRes,    \* what the inner service resolved to in the last resolved call
    outRes,      \* what the future returned by call resolved to
    readiness,   \* what the last poll_ready returned
    \* ---- framed_route.rs ----
    froute,      \* the route under construction (pattern builder, route builder or FramedRoute)
    ffactory,    \* FramedRouteFactory or None
    fcreate,     \* CreateRouteService or None
    fservice,    \* FramedRouteService or None
    fin,         \* the operation last run on the service and the (request, framed) it was given
    fout         \* what that operation returned, and what it called the inner service with

vars == <<filter, fctor, fargs, freq, fresult, fafter, fcalls,
          resource, afterMw, factory_ref, endpoint, create, creturned, cresult,
          service, request, checked, called, response, hreturned, presult, sready,
          tup, returned, polled, skipped, tresult, wrapped, wreturned, wresult,
          payloadCfg, payloadIn, payloadFut, payloadRes, pathIn, pathOut,
          inner, rc, panicked, inflight, usedInner, innerRes, outRes, readiness,
          froute, ffactory, fcreate, fservice, fin, fout>>

filterVars == <<filter, fctor, fargs, freq, fresult, fafter, fcalls>>
resourceVars == <<resource, afterMw, factory_ref, endpoint, create, creturned, cresult,
                  service, request, checked, called, response, hreturned, presult, sready>>
extractVars == <<payloadCfg, payloadIn, payloadFut, payloadRes, pathIn, pathOut>>
\* every variable of extractor.rs
tupleVars == <<tup, returned, polled, skipped, tresult, wrapped, wreturned, wresult, extractVars>>
headersVars == <<inner, rc, panicked, inflight, usedInner, innerRes, outRes, readiness>>
framedVars == <<froute, ffactory, fcreate, fservice, fin, fout>>

\* Option<T>: None is the empty sequence, Some(x) the one-element sequence
None == <<>>
Some(x) == <<x>>

InSeq(x, sq) == \E k \in 1..Len(sq) : sq[k] = x

\* values and errors that futures resolve to
Values == {"v1", "v2"}
Errors == {"e1", "e2"}

(***************************************************************************)
(* Requests                                                                *)
(***************************************************************************)
Methods == {"GET", "POST", "PUT", "DELETE", "HEAD", "OPTIONS", "CONNECT", "PATCH", "TRACE"}

\* HeaderMap: entries in order of first insertion, each with the values of its name
HeaderMapNew == <<>>
ContainsKey(map, k) == \E i \in 1..Len(map) : map[i].name = k
IndexOfKey(map, k) == CHOOSE i \in 1..Len(map) : map[i].name = k
\* HeaderMap::get: the first value of the name
HeaderMapGet(map, k) == IF ContainsKey(map, k) THEN Some(map[IndexOfKey(map, k)].values[1]) ELSE None
\* all values of the name
HeaderMapGetAll(map, k) == IF ContainsKey(map, k) THEN map[IndexOfKey(map, k)].values ELSE <<>>
\* HeaderMap::append: adds the value to the values of the name
HeaderMapAppend(map, k, v) ==
    IF ContainsKey(map, k)
    THEN [map EXCEPT ![IndexOfKey(map, k)].values = Append(@, v)]
    ELSE Append(map, [name |-> k, values |-> <<v>>])
\* HeaderMap::insert: the value replaces the values of the name
HeaderMapInsert(map, k, v) ==
    IF ContainsKey(map, k)
    THEN [map EXCEPT ![IndexOfKey(map, k)].values = <<v>>]
    ELSE Append(map, [name |-> k, values |-> <<v>>])

RECURSIVE HeaderMapIter(_)
\* HeaderMap::iter: every (name, value) pair, values of one name together
HeaderMapIter(map) ==
    IF map = <<>> THEN <<>>
    ELSE [j \in 1..Len(map[1].values) |-> <<map[1].name, map[1].values[j]>>]
             \o HeaderMapIter(Tail(map))

\* HeaderName::try_from: header names are normalised to lower case
HeaderNameTryFrom(name) == IF name = "Content-Type" THEN "content-type" ELSE name

RECURSIVE HeaderMapFrom(_)
\* the header map of a request that carries the (name, value) pairs in this order
HeaderMapFrom(pairs) ==
    IF pairs = <<>> THEN HeaderMapNew
    ELSE HeaderMapAppend(HeaderMapFrom(SubSeq(pairs, 1, Len(pairs) - 1)),
                         pairs[Len(pairs)][1], pairs[Len(pairs)][2])

HOST == "host"
ContentTypeLines ==
    {<<>>, <<<<"content-type", "text/plain">>>>,
     <<<<"content-type", "text/html">>, <<"content-type", "text/plain">>>>}
HostLines == {<<>>, <<<<HOST, "www.rust-lang.org">>>>}

\* A request as the filters see it: its method and its header map.
Requests == [method : Methods, headers : {HeaderMapFrom(c \o h) : c \in ContentTypeLines, h \in HostLines}]

(***************************************************************************)
(* filter.rs                                                               *)
(***************************************************************************)
MethodFilter(m) == [kind |-> "Method", a |-> m, b |-> "", fs |-> <<>>]
Get == MethodFilter("GET")
Post == MethodFilter("POST")
Put == MethodFilter("PUT")
Delete == MethodFilter("DELETE")
HeadFilter == MethodFilter("HEAD")
Options == MethodFilter("OPTIONS")
Connect == MethodFilter("CONNECT")
Patch == MethodFilter("PATCH")
Trace == MethodFilter("TRACE")
Method(m) == MethodFilter(m)

Header(name, value) == [kind |-> "Header", a |-> HeaderNameTryFrom(name), b |-> value, fs |-> <<>>]

\* HostFilter(host, None)
Host(h) == [kind |-> "Host", a |-> h, b |-> "None", fs |-> <<>>]
\* HostFilter::scheme: self.1 = Some(scheme)
scheme(self, s) == [self EXCEPT !.b = s]

Any(f) == [kind |-> "Any", a |-> "", b |-> "", fs |-> <<f>>]
or(self, f) == [self EXCEPT !.fs = Append(@, f)]

All(f) == [kind |-> "All", a |-> "", b |-> "", fs |-> <<f>>]
and(self, f) == [self EXCEPT !.fs = Append(@, f)]

Not(f) == [kind |-> "Not", a |-> "", b |-> "", fs |-> <<f>>]

RECURSIVE check(_, _)
RECURSIVE AnyFilterCheckFrom(_, _, _)
RECURSIVE AllFilterCheckFrom(_, _, _)

\* for p in &self.0 { if p.check(req) { return true; } } false
AnyFilterCheckFrom(fs, i, req) ==
    IF i > Len(fs) THEN FALSE
    ELSE IF check(fs[i], req) THEN TRUE
    ELSE AnyFilterCheckFrom(fs, i + 1, req)

\* the loop returning the answer of the first member it looks at
AllFilterCheckFirstOnly(fs, i, req) ==
    IF i > Len(fs) THEN TRUE
    ELSE check(fs[i], req)

\* for p in &self.0 { if !p.check(request) { return false; } } true
AllFilterCheckFrom(fs, i, req) ==
    IF i > Len(fs) THEN TRUE
    ELSE IF ~check(fs[i], req) THEN FALSE
    ELSE AllFilterCheckFrom(fs, i + 1, req)

AnyFilterCheck(f, req) == AnyFilterCheckFrom(f.fs, 1, req)

AllFilterCheck(f, req) == AllFilterCheckFrom(f.fs, 1, req)

NotFilterCheck(f, req) == ~check(f.fs[1], req)

\* a GET filter that also lets HEAD requests pass
MethodFilterCheckGetAlsoHead(f, req) ==
    req.method = f.a \/ (f.a = "GET" /\ req.method = "HEAD")

\* request.method() == self.0
MethodFilterCheck(f, req) == req.method = f.a

\* if let Some(val) = req.headers().get(&self.0) { return val == self.1; } false
HeaderFilterCheck(f, req) ==
    IF HeaderMapGet(req.headers, f.a) # None
    THEN HeaderMapGet(req.headers, f.a)[1] = f.b
    ELSE FALSE

\* the comparison the source carries in a comment: self.0 == info.host()
HostFilterCheckCompares(f, req) == HeaderMapGet(req.headers, HOST) = Some(f.a)

\* the comparison against connection info is commented out in the source
HostFilterCheck(f, req) == FALSE

check(f, req) ==
    CASE f.kind = "Any" -> AnyFilterCheck(f, req)
      [] f.kind = "All" -> AllFilterCheck(f, req)
      [] f.kind = "Not" -> NotFilterCheck(f, req)
      [] f.kind = "Method" -> MethodFilterCheck(f, req)
      [] f.kind = "Header" -> HeaderFilterCheck(f, req)
      [] f.kind = "Host" -> HostFilterCheck(f, req)

\* the filters the builder calls are fed with
LeafFilters == {Get, Trace, Header("content-type", "text/plain"), Host("www.rust-lang.org")}
FilterPool == LeafFilters \cup {Not(Get), or(Any(Get), Post)}

\* the requests the filters are checked against: every method without headers, GET
\* and POST with every header map
FilterRequests == {r \in Requests : r.method \in {"GET", "POST"} \/ r.headers = HeaderMapNew}

\* the arguments the leaf constructors are called with
HeaderFilterNames == {"content-type", "Content-Type", HOST}
HeaderFilterValues == {"text/plain", "text/html"}
HostNames == {"www.rust-lang.org", "localhost"}
Schemes == {"http", "https"}

\* the constructor function called and its string arguments
Ctor(name, a, b) == [name |-> name, a |-> a, b |-> b]

MaxChain == 3

FilterIdle ==
    /\ filter = None
    /\ fctor = None
    /\ fargs = <<>>
    /\ freq = None
    /\ fresult = None
    /\ fafter = None
    /\ fcalls = <<>>

\* Any(a)
FilterAny(a) ==
    /\ filter' = Some(Any(a))
    /\ fctor' = Some(Ctor("Any", "", ""))
    /\ fargs' = <<a>>
    /\ freq' = None
    /\ fresult' = None
    /\ fafter' = None
    /\ fcalls' = <<>>
    /\ UNCHANGED <<resourceVars, tupleVars, headersVars, framedVars>>

\* AnyFilter::or
FilterOr(b) ==
    /\ filter # None
    /\ filter[1].kind = "Any"
    /\ Len(filter[1].fs) < MaxChain
    /\ filter' = Some(or(filter[1], b))
    /\ UNCHANGED fctor
    /\ fargs' = Append(fargs, b)
    /\ freq' = None
    /\ fresult' = None
    /\ fafter' = None
    /\ fcalls' = <<>>
    /\ UNCHANGED <<resourceVars, tupleVars, headersVars, framedVars>>

\* All(a)
FilterAll(a) ==
    /\ filter' = Some(All(a))
    /\ fctor' = Some(Ctor("All", "", ""))
    /\ fargs' = <<a>>
    /\ freq' = None
    /\ fresult' = None
    /\ fafter' = None
    /\ fcalls' = <<>>
    /\ UNCHANGED <<resourceVars, tupleVars, headersVars, framedVars>>

\* AllFilter::and
FilterAnd(b) ==
    /\ filter # None
    /\ filter[1].kind = "All"
    /\ Len(filter[1].fs) < MaxChain
    /\ filter' = Some(and(filter[1], b))
    /\ UNCHANGED fctor
    /\ fargs' = Append(fargs, b)
    /\ freq' = None
    /\ fresult' = None
    /\ fafter' = None
    /\ fcalls' = <<>>
    /\ UNCHANGED <<resourceVars, tupleVars, headersVars, framedVars>>

\* Not(a)
FilterNot(a) ==
    /\ filter' = Some(Not(a))
    /\ fctor' = Some(Ctor("Not", "", ""))
    /\ fargs' = <<a>>
    /\ freq' = None
    /\ fresult' = None
    /\ fafter' = None
    /\ fcalls' = <<>>
    /\ UNCHANGED <<resourceVars, tupleVars, headersVars, framedVars>>

\* Get()
FilterGet ==
    /\ filter' = Some(Get)
    /\ fctor' = Some(Ctor("Get", "", ""))
    /\ fargs' = <<>>
    /\ freq' = None
    /\ fresult' = None
    /\ fafter' = None
    /\ fcalls' = <<>>
    /\ UNCHANGED <<resourceVars, tupleVars, headersVars, framedVars>>

\* Post()
FilterPost ==
    /\ filter' = Some(Post)
    /\ fctor' = Some(Ctor("Post", "", ""))
    /\ fargs' = <<>>
    /\ freq' = None
    /\ fresult' = None
    /\ fafter' = None
    /\ fcalls' = <<>>
    /\ UNCHANGED <<resourceVars, tupleVars, headersVars, framedVars>>

\* Put()
FilterPut ==
    /\ filter' = Some(Put)
    /\ fctor' = Some(Ctor("Put", "", ""))
    /\ fargs' = <<>>
    /\ freq' = None
    /\ fresult' = None
    /\ fafter' = None
    /\ fcalls' = <<>>
    /\ UNCHANGED <<resourceVars, tupleVars, headersVars, framedVars>>

\* Delete()
FilterDelete ==
    /\ filter' = Some(Delete)
    /\ fctor' = Some(Ctor("Delete", "", ""))
    /\ fargs' = <<>>
    /\ freq' = None
    /\ fresult' = None
    /\ fafter' = None
    /\ fcalls' = <<>>
    /\ UNCHANGED <<resourceVars, tupleVars, headersVars, framedVars>>

\* Head()
FilterHead ==
    /\ filter' = Some(HeadFilter)
    /\ fctor' = Some(Ctor("Head", "", ""))
    /\ fargs' = <<>>
    /\ freq' = None
    /\ fresult' = None
    /\ fafter' = None
    /\ fcalls' = <<>>
    /\ UNCHANGED <<resourceVars, tupleVars, headersVars, framedVars>>

\* Options()
FilterOptions ==
    /\ filter' = Some(Options)
    /\ fctor' = Some(Ctor("Options", "", ""))
    /\ fargs' = <<>>
    /\ freq' = None
    /\ fresult' = None
    /\ fafter' = None
    /\ fcalls' = <<>>
    /\ UNCHANGED <<resourceVars, tupleVars, headersVars, framedVars>>

\* Connect()
FilterConnect ==
    /\ filter' = Some(Connect)
    /\ fctor' = Some(Ctor("Connect", "", ""))
    /\ fargs' = <<>>
    /\ freq' = None
    /\ fresult' = None
    /\ fafter' = None
    /\ fcalls' = <<>>
    /\ UNCHANGED <<resourceVars, tupleVars, headersVars, framedVars>>

\* Patch()
FilterPatch ==
    /\ filter' = Some(Patch)
    /\ fctor' = Some(Ctor("Patch", "", ""))
    /\ fargs' = <<>>
    /\ freq' = None
    /\ fresult' = None
    /\ fafter' = None
    /\ fcalls' = <<>>
    /\ UNCHANGED <<resourceVars, tupleVars, headersVars, framedVars>>

\* Trace()
FilterTrace ==
    /\ filter' = Some(Trace)
    /\ fctor' = Some(Ctor("Trace", "", ""))
    /\ fargs' = <<>>
    /\ freq' = None
    /\ fresult' = None
    /\ fafter' = None
    /\ fcalls' = <<>>
    /\ UNCHANGED <<resourceVars, tupleVars, headersVars, framedVars>>

\* Method(m)
FilterMethod(m) ==
    /\ filter' = Some(Method(m))
    /\ fctor' = Some(Ctor("Method", m, ""))
    /\ fargs' = <<>>
    /\ freq' = None
    /\ fresult' = None
    /\ fafter' = None
    /\ fcalls' = <<>>
    /\ UNCHANGED <<resourceVars, tupleVars, headersVars, framedVars>>

\* Header(name, value)
FilterHeader(name, value) ==
    /\ filter' = Some(Header(name, value))
    /\ fctor' = Some(Ctor("Header", name, value))
    /\ fargs' = <<>>
    /\ freq' = None
    /\ fresult' = None
    /\ fafter' = None
    /\ fcalls' = <<>>
    /\ UNCHANGED <<resourceVars, tupleVars, headersVars, framedVars>>

\* Host(h)
FilterHost(h) ==
    /\ filter' = Some(Host(h))
    /\ fctor' = Some(Ctor("Host", h, ""))
    /\ fargs' = <<>>
    /\ freq' = None
    /\ fresult' = None
    /\ fafter' = None
    /\ fcalls' = <<>>
    /\ UNCHANGED <<resourceVars, tupleVars, headersVars, framedVars>>

\* HostFilter::scheme on the host filter built so far
FilterScheme(s) ==
    /\ filter # None
    /\ filter[1].kind = "Host"
    /\ filter' = Some(scheme(filter[1], s))
    /\ freq' = None
    /\ fresult' = None
    /\ fafter' = None
    /\ fcalls' = <<>>
    /\ UNCHANGED <<fctor, fargs>>
    /\ UNCHANGED <<resourceVars, tupleVars, headersVars, framedVars>>

\* a Header filter that takes the header it looked at out of the request
RequestAfterTakesHeader(f, req) ==
    IF f.kind = "Header"
    THEN [req EXCEPT !.headers = SelectSeq(@, LAMBDA e : e.name # f.a)]
    ELSE req

\* the request after the check of a method, header or host filter: check is handed
\* &HttpRequest and reads request.method() and req.headers()
RequestAfter(f, req) == req

RECURSIVE Run(_, _, _)
RECURSIVE RunAnyFrom(_, _, _, _, _)
RECURSIVE RunAllFromEvery(_, _, _, _, _)
RECURSIVE RunAllFrom(_, _, _, _, _)

\* AnyFilter::check from member i on: the request as the members checked leave it and
\* the checks called, the loop returning at the first member that matches
RunAnyFrom(fs, i, req, path, calls) ==
    IF i > Len(fs) THEN [req |-> req, calls |-> calls]
    ELSE LET m == Run(fs[i], req, Append(path, i))
         IN IF check(fs[i], req)
            THEN [req |-> m.req, calls |-> calls \o m.calls]
            ELSE RunAnyFrom(fs, i + 1, m.req, path, calls \o m.calls)

\* the loop of AllFilter::check going on after a member that does not match
RunAllFromEvery(fs, i, req, path, calls) ==
    IF i > Len(fs) THEN [req |-> req, calls |-> calls]
    ELSE LET m == Run(fs[i], req, Append(path, i))
         IN RunAllFromEvery(fs, i + 1, m.req, path, calls \o m.calls)

\* AllFilter::check from member i on, the loop returning at the first member that
\* does not match
RunAllFrom(fs, i, req, path, calls) ==
    IF i > Len(fs) THEN [req |-> req, calls |-> calls]
    ELSE LET m == Run(fs[i], req, Append(path, i))
         IN IF ~check(fs[i], req)
            THEN [req |-> m.req, calls |-> calls \o m.calls]
            ELSE RunAllFrom(fs, i + 1, m.req, path, calls \o m.calls)

\* one call of check on the filter at path: what it leaves of the request and the
\* checks it calls, itself first
Run(f, req, path) ==
    IF f.kind = "Any" THEN RunAnyFrom(f.fs, 1, req, path, <<path>>)
    ELSE IF f.kind = "All" THEN RunAllFrom(f.fs, 1, req, path, <<path>>)
    ELSE IF f.kind = "Not"
    THEN LET m == Run(f.fs[1], req, Append(path, 1))
         IN [req |-> m.req, calls |-> <<path>> \o m.calls]
    ELSE [req |-> RequestAfter(f, req), calls |-> <<path>>]

\* Filter::check on the filter built so far
FilterCheck(req) ==
    /\ filter # None
    /\ freq' = Some(req)
    /\ fresult' = Some(check(filter[1], req))
    /\ LET r == Run(filter[1], req, <<>>)
       IN fafter' = Some(r.req) /\ fcalls' = r.calls
    /\ UNCHANGED <<filter, fctor, fargs>>
    /\ UNCHANGED <<resourceVars, tupleVars, headersVars, framedVars>>

\* Filter::check once more on the request the last check was handed, as another route
\* holding the filter does
FilterCheckAgain ==
    /\ filter # None
    /\ Len(fresult) = 1
    /\ fresult' = Append(fresult, check(filter[1], fafter[1]))
    /\ LET r == Run(filter[1], fafter[1], <<>>)
       IN fafter' = Some(r.req) /\ fcalls' = r.calls
    /\ UNCHANGED <<filter, fctor, fargs, freq>>
    /\ UNCHANGED <<resourceVars, tupleVars, headersVars, framedVars>>

(***************************************************************************)
(* resource.rs                                                             *)
(***************************************************************************)
MaxRoutes == 2
MaxMiddleware == 1

\* filter lists a route closure may attach to the route it is handed
RouteFilterChoices == {<<>>, <<Header("content-type", "text/plain")>>}

\* Route::build()
RouteBuild == [methods |-> <<>>, filters |-> <<>>]
\* Route::build().method(m)
RouteMethod(r, m) == [r EXCEPT !.methods = Append(@, m)]
\* RouteBuilder::filter for each filter of fl
RouteFilters(r, fl) == [r EXCEPT !.filters = @ \o fl]

RECURSIVE RouteFiltersFrom(_, _, _)
RouteFiltersFrom(fl, i, req) ==
    IF i > Len(fl) THEN TRUE
    ELSE IF ~check(fl[i], req) THEN FALSE
    ELSE RouteFiltersFrom(fl, i + 1, req)

\* RouteService::check
RouteCheck(r, req) ==
    /\ (r.methods = <<>> \/ \E k \in 1..Len(r.methods) : r.methods[k] = req.method)
    /\ RouteFiltersFrom(r.filters, 1, req)

\* the requests offered to the compiled resource
DispatchRequests ==
    {r \in Requests : /\ r.method \in {"GET", "POST"}
                      /\ ~ContainsKey(r.headers, HOST)
                      /\ Len(HeaderMapGetAll(r.headers, "content-type")) < 2}

\* Resource::new()
ResourceNew == [routes |-> <<>>, endpoint |-> <<>>, default |-> None]

ResourceIdle ==
    /\ resource = Some(ResourceNew)
    /\ afterMw = {}
    /\ factory_ref = None
    /\ endpoint = None
    /\ create = None
    /\ creturned = None
    /\ cresult = None
    /\ service = None
    /\ request = None
    /\ checked = <<>>
    /\ called = None
    /\ response = None
    /\ hreturned = None
    /\ presult = None
    /\ sready = None

\* self.routes.push(route)
Push(res, route) == [res EXCEPT !.routes = Append(@, route)]

CanPush == resource # None /\ Len(resource[1].routes) < MaxRoutes

builderFrame == <<sready, factory_ref, endpoint, create, creturned, cresult, service, hreturned, presult, request, checked, called, response,
                  filterVars, tupleVars, headersVars, framedVars>>

\* what a registration on the builder self adds to the record of those made after a
\* middleware call
Registered(self, what) == IF self.endpoint # <<>> THEN {what} ELSE {}

\* Resource::route
ResourceRoute(fl) ==
    /\ CanPush
    /\ resource' = Some(Push(resource[1], RouteFilters(RouteBuild, fl)))
    /\ afterMw' = afterMw \cup Registered(resource[1], "route")
    /\ UNCHANGED builderFrame

\* Resource::get
ResourceGet ==
    /\ CanPush
    /\ resource' = Some(Push(resource[1], RouteMethod(RouteBuild, "GET")))
    /\ afterMw' = afterMw \cup Registered(resource[1], "route")
    /\ UNCHANGED builderFrame

\* Resource::post
ResourcePost ==
    /\ CanPush
    /\ resource' = Some(Push(resource[1], RouteMethod(RouteBuild, "POST")))
    /\ afterMw' = afterMw \cup Registered(resource[1], "route")
    /\ UNCHANGED builderFrame

\* Resource::put
ResourcePut ==
    /\ CanPush
    /\ resource' = Some(Push(resource[1], RouteMethod(RouteBuild, "PUT")))
    /\ afterMw' = afterMw \cup Registered(resource[1], "route")
    /\ UNCHANGED builderFrame

\* Resource::delete
ResourceDelete ==
    /\ CanPush
    /\ resource' = Some(Push(resource[1], RouteMethod(RouteBuild, "DELETE")))
    /\ afterMw' = afterMw \cup Registered(resource[1], "route")
    /\ UNCHANGED builderFrame

\* Resource::head
ResourceHead ==
    /\ CanPush
    /\ resource' = Some(Push(resource[1], RouteMethod(RouteBuild, "HEAD")))
    /\ afterMw' = afterMw \cup Registered(resource[1], "route")
    /\ UNCHANGED builderFrame

\* Resource::method
ResourceMethod(m) ==
    /\ CanPush
    /\ resource' = Some(Push(resource[1], RouteMethod(RouteBuild, m)))
    /\ afterMw' = afterMw \cup Registered(resource[1], "route")
    /\ UNCHANGED builderFrame

\* Resource::to
ResourceTo ==
    /\ CanPush
    /\ resource' = Some(Push(resource[1], RouteBuild))
    /\ afterMw' = afterMw \cup Registered(resource[1], "route")
    /\ UNCHANGED builderFrame

\* Resource::to_async
ResourceToAsync ==
    /\ CanPush
    /\ resource' = Some(Push(resource[1], RouteBuild))
    /\ afterMw' = afterMw \cup Registered(resource[1], "route")
    /\ UNCHANGED builderFrame

\* a Resource rebuilt around the wrapped endpoint, its default left behind
MiddlewareDropsDefault(self) ==
    [endpoint |-> Append(self.endpoint, "mw"), routes |-> self.routes, default |-> None]

\* Resource { endpoint: ApplyNewService::new(mw, self.endpoint), routes: self.routes,
\*            default: self.default, factory_ref: self.factory_ref }
Middleware(self) ==
    [endpoint |-> Append(self.endpoint, "mw"), routes |-> self.routes, default |-> self.default]

\* Resource::middleware
ResourceMiddleware ==
    /\ resource # None
    /\ Len(resource[1].endpoint) < MaxMiddleware
    /\ resource' = Some(Middleware(resource[1]))
    /\ UNCHANGED <<afterMw, builderFrame>>

\* Resource::default_resource
ResourceDefaultResource ==
    /\ resource # None
    /\ resource' = Some([resource[1] EXCEPT !.default = Some("default")])
    /\ afterMw' = afterMw \cup Registered(resource[1], "default")
    /\ UNCHANGED builderFrame

\* the cell filled only for a Resource whose endpoint no middleware wraps
IntoNewServiceUnwrappedOnly(self) ==
    [factory |-> IF self.endpoint = <<>>
                 THEN Some([routes |-> self.routes, default |-> self.default])
                 ELSE None,
     endpoint |-> self.endpoint]

\* *self.factory_ref.borrow_mut() = Some(ResourceFactory { routes, default }); self.endpoint
IntoNewService(self) ==
    [factory |-> Some([routes |-> self.routes, default |-> self.default]),
     endpoint |-> self.endpoint]

\* IntoNewService::into_new_service consumes the builder and fills the factory cell
ResourceIntoNewService ==
    /\ resource # None
    /\ factory_ref' = IntoNewService(resource[1]).factory
    /\ endpoint' = Some(IntoNewService(resource[1]).endpoint)
    /\ resource' = None
    /\ UNCHANGED <<create, creturned, cresult, service, request, checked, called, response>>
    /\ UNCHANGED <<hreturned, presult>>
    /\ UNCHANGED <<afterMw, sready, filterVars, tupleVars, headersVars, framedVars>>

\* ResourceFactory::new_service (through ResourceEndpoint::new_service)
FactoryNewService(f) ==
    [fut |-> [i \in 1..Len(f.routes) |-> [kind |-> "Future", route |-> f.routes[i]]],
     default |-> None,
     default_fut |-> IF f.default # None THEN Some(f.default[1]) ELSE None,
     state |-> "NotReady"]

\* unwrap() on the empty factory cell
NewServicePanic == [fut |-> <<>>, default |-> None, default_fut |-> None, state |-> "Panic"]

\* ResourceEndpoint::new_service: self.factory.borrow_mut().as_mut().unwrap().new_service()
ResourceNewService ==
    /\ endpoint # None
    /\ create = None
    /\ create' = IF factory_ref = None THEN Some(NewServicePanic)
                 ELSE Some(FactoryNewService(factory_ref[1]))
    /\ creturned' = Some([default |-> None,
                          routes |-> IF factory_ref = None THEN <<>>
                                     ELSE [i \in 1..Len(factory_ref[1].routes) |-> None],
                          again |-> {}])
    /\ cresult' = None
    /\ UNCHANGED <<resource, factory_ref, endpoint, service, request, checked, called, response>>
    /\ UNCHANGED <<hreturned, presult>>
    /\ UNCHANGED <<afterMw, sready, filterVars, tupleVars, headersVars, framedVars>>

\* what one poll of a child construction future returns
ChildOutcomes == {"Ready", "NotReady", "Err"}

RECURSIVE PollItemsFromSkipsErr(_, _, _, _, _)
\* the loop taking a failed route construction for one that is not ready yet
PollItemsFromSkipsErr(fut, i, out, done, pl) ==
    IF i > Len(fut) THEN [fut |-> fut, done |-> done, err |-> FALSE, polled |-> pl]
    ELSE IF fut[i].kind = "Service" THEN PollItemsFromSkipsErr(fut, i + 1, out, done, pl)
    ELSE IF out[i] = "Ready"
         THEN PollItemsFromSkipsErr([fut EXCEPT ![i].kind = "Service"], i + 1, out, done,
                                    Append(pl, i))
    ELSE PollItemsFromSkipsErr(fut, i + 1, out, FALSE, Append(pl, i))

\* the item at position i moved to the front
MoveToFront(sq, i) ==
    <<sq[i]>> \o SubSeq(sq, 1, i - 1) \o SubSeq(sq, i + 1, Len(sq))

RECURSIVE PollItemsFromCompletionOrder(_, _, _, _, _)
\* the loop collecting the route services in the order their futures complete: the
\* route that has just become ready is put before those still waiting
PollItemsFromCompletionOrder(fut, i, out, done, pl) ==
    IF i > Len(fut) THEN [fut |-> fut, done |-> done, err |-> FALSE, polled |-> pl]
    ELSE IF fut[i].kind = "Service"
         THEN PollItemsFromCompletionOrder(fut, i + 1, out, done, pl)
    ELSE IF out[i] = "Err"
         THEN [fut |-> fut, done |-> done, err |-> TRUE, polled |-> Append(pl, i)]
    ELSE IF out[i] = "Ready"
         THEN PollItemsFromCompletionOrder(
                  MoveToFront([fut EXCEPT ![i].kind = "Service"], i), i + 1, out, done,
                  Append(pl, i))
    ELSE PollItemsFromCompletionOrder(fut, i + 1, out, FALSE, Append(pl, i))

RECURSIVE PollItemsFrom(_, _, _, _, _)
\* for item in &mut self.fut { ... }
PollItemsFrom(fut, i, out, done, pl) ==
    IF i > Len(fut) THEN [fut |-> fut, done |-> done, err |-> FALSE, polled |-> pl]
    ELSE IF fut[i].kind = "Service" THEN PollItemsFrom(fut, i + 1, out, done, pl)
    ELSE IF out[i] = "Err"
         THEN [fut |-> fut, done |-> done, err |-> TRUE, polled |-> Append(pl, i)]
    ELSE IF out[i] = "Ready"
         THEN PollItemsFrom([fut EXCEPT ![i].kind = "Service"], i + 1, out, done, Append(pl, i))
    ELSE PollItemsFrom(fut, i + 1, out, FALSE, Append(pl, i))

\* what default_fut.poll() may do: default_fut stays in place after it has returned
\* Ready, and a future polled again after completion may return anything or panic
DefaultOutcomes(c) == IF c.default # None THEN ChildOutcomes \cup {"Panic"} ELSE ChildOutcomes

\* the poll in which a pending default construction does not clear done
CreateResourceServicePollDefaultNotAwaited(c, dout, out) ==
    IF c.default_fut # None /\ dout = "Panic"
    THEN [c |-> [c EXCEPT !.state = "Panic"], srv |-> None, polled |-> <<0>>, ret |-> "Panic"]
    ELSE IF c.default_fut # None /\ dout = "Err"
    THEN [c |-> [c EXCEPT !.state = "Err"], srv |-> None, polled |-> <<0>>, ret |-> "Err"]
    ELSE
      LET c1 == IF c.default_fut # None /\ dout = "Ready"
                THEN [c EXCEPT !.default = Some(c.default_fut[1])] ELSE c
          pl1 == IF c.default_fut # None THEN <<0>> ELSE <<>>
          r == PollItemsFrom(c1.fut, 1, out, TRUE, pl1)
      IN IF r.err THEN [c |-> [c1 EXCEPT !.fut = r.fut, !.state = "Err"], srv |-> None,
                        polled |-> r.polled, ret |-> "Err"]
         ELSE IF r.done
              THEN [c |-> [c1 EXCEPT !.fut = <<>>, !.default = None, !.state = "Ready"],
                    srv |-> Some([routes |-> [i \in 1..Len(r.fut) |-> r.fut[i].route],
                                  default |-> c1.default]),
                    polled |-> r.polled, ret |-> "Ready"]
         ELSE [c |-> [c1 EXCEPT !.fut = r.fut], srv |-> None,
               polled |-> r.polled, ret |-> "NotReady"]

\* CreateResourceService::poll; dout is what default_fut.poll() returns, out[i] what
\* the i-th route construction future returns if it is polled
CreateResourceServicePoll(c, dout, out) ==
    IF c.default_fut # None /\ dout = "Panic"
    THEN [c |-> [c EXCEPT !.state = "Panic"], srv |-> None, polled |-> <<0>>, ret |-> "Panic"]
    ELSE IF c.default_fut # None /\ dout = "Err"
    THEN [c |-> [c EXCEPT !.state = "Err"], srv |-> None, polled |-> <<0>>, ret |-> "Err"]
    ELSE
      LET c1 == IF c.default_fut # None /\ dout = "Ready"
                THEN [c EXCEPT !.default = Some(c.default_fut[1])] ELSE c
          done1 == ~(c.default_fut # None /\ dout = "NotReady")
          pl1 == IF c.default_fut # None THEN <<0>> ELSE <<>>
          r == PollItemsFrom(c1.fut, 1, out, done1, pl1)
      IN IF r.err THEN [c |-> [c1 EXCEPT !.fut = r.fut, !.state = "Err"], srv |-> None,
                        polled |-> r.polled, ret |-> "Err"]
         ELSE IF r.done
              THEN [c |-> [c1 EXCEPT !.fut = <<>>, !.default = None, !.state = "Ready"],
                    srv |-> Some([routes |-> [i \in 1..Len(r.fut) |-> r.fut[i].route],
                                  default |-> c1.default]),
                    polled |-> r.polled, ret |-> "Ready"]
         ELSE [c |-> [c1 EXCEPT !.fut = r.fut], srv |-> None,
               polled |-> r.polled, ret |-> "NotReady"]

\* what the route construction futures return in a poll: only those still held as
\* CreateRouteServiceItem::Future are polled, the entry of any other is not read
PolledOutcomes(c) ==
    {out \in [1..Len(c.fut) -> ChildOutcomes] :
        \A i \in 1..Len(c.fut) : c.fut[i].kind = "Service" => out[i] = "Ready"}

\* the children polled in a poll (0 the default's future, i the i-th route's) whose
\* future had returned Ready in an earlier poll of the same construction
PolledAgain(c, pl) ==
    {k \in 0..Len(c.fut) :
        /\ InSeq(k, pl)
        /\ IF k = 0 THEN c.default # None ELSE c.fut[k].kind = "Service"}

\* one poll of the construction in which default_fut.poll() returns dout and the
\* future of route i, if polled, out[i]
ResourcePollWith(dout, out) ==
    /\ create # None
    /\ create[1].state = "NotReady"
    /\   LET r == CreateResourceServicePoll(create[1], dout, out)
         IN /\ create' = Some(r.c)
            /\ service' = IF r.srv # None THEN r.srv ELSE service
            /\ cresult' = Some(r.ret)
            /\ creturned' =
                  Some([default |-> IF InSeq(0, r.polled) THEN Some(dout)
                                    ELSE creturned[1].default,
                        routes |-> [i \in 1..Len(creturned[1].routes) |->
                                       IF InSeq(i, r.polled) THEN Some(out[i])
                                       ELSE creturned[1].routes[i]],
                        again |-> PolledAgain(create[1], r.polled)])
    /\ UNCHANGED <<resource, factory_ref, endpoint, request, checked, called, response>>
    /\ UNCHANGED <<hreturned, presult>>
    /\ UNCHANGED <<afterMw, sready, filterVars, tupleVars, headersVars, framedVars>>

ResourcePoll ==
    /\ create # None
    /\ \E dout \in DefaultOutcomes(create[1]), out \in PolledOutcomes(create[1]) :
          ResourcePollWith(dout, out)

RECURSIVE CallFromLastWins(_, _, _, _)
\* the loop without its early return: the last accepting route handles the request
CallFromLastWins(routes, i, req, chk) ==
    IF i > Len(routes) THEN [checked |-> chk, handler |-> 0]
    ELSE LET rest == CallFromLastWins(routes, i + 1, req, Append(chk, i))
         IN IF rest.handler = 0 /\ RouteCheck(routes[i], req)
            THEN [checked |-> rest.checked, handler |-> i]
            ELSE rest

RECURSIVE CallFrom(_, _, _, _)
\* for route in self.routes.iter_mut() { if route.check(&mut req) { return ... } }
CallFrom(routes, i, req, chk) ==
    IF i > Len(routes) THEN [checked |-> chk, handler |-> 0]
    ELSE IF RouteCheck(routes[i], req) THEN [checked |-> Append(chk, i), handler |-> i]
    ELSE CallFrom(routes, i + 1, req, Append(chk, i))

\* Response::NotFound()
NotFound == 404

\* the fallback future of a call that fails instead of answering 404
NotFoundResponseErr == [kind |-> "FutureResult", ready |-> TRUE, ok |-> FALSE, status |-> 0]
\* ok(Response::NotFound().finish())
NotFoundResponse == [kind |-> "FutureResult", ready |-> TRUE, ok |-> TRUE, status |-> NotFound]

\* the default consulted before the routes
ResourceServiceCallDefaultFirst(srv, req) ==
    LET r == CallFrom(srv.routes, 1, req, <<>>)
    IN IF srv.default # None
       THEN [checked |-> <<>>,
             called |-> [kind |-> "default", idx |-> 0],
             response |-> [kind |-> "DefaultFuture", ready |-> FALSE,
                           ok |-> FALSE, status |-> 0]]
       ELSE IF r.handler # 0
       THEN [checked |-> r.checked,
             called |-> [kind |-> "route", idx |-> r.handler],
             response |-> [kind |-> "ResourceServiceResponse", ready |-> FALSE,
                           ok |-> FALSE, status |-> 0]]
       ELSE [checked |-> r.checked,
             called |-> [kind |-> "none", idx |-> 0],
             response |-> [kind |-> "FutureResult", ready |-> TRUE,
                           ok |-> TRUE, status |-> 404]]

\* ResourceService::call
ResourceServiceCall(srv, req) ==
    LET r == CallFrom(srv.routes, 1, req, <<>>)
    IN IF r.handler # 0
       THEN [checked |-> r.checked,
             called |-> [kind |-> "route", idx |-> r.handler],
             response |-> [kind |-> "ResourceServiceResponse", ready |-> FALSE,
                           ok |-> FALSE, status |-> 0]]
       ELSE IF srv.default # None
       THEN [checked |-> r.checked,
             called |-> [kind |-> "default", idx |-> 0],
             response |-> [kind |-> "DefaultFuture", ready |-> FALSE,
                           ok |-> FALSE, status |-> 0]]
       ELSE [checked |-> r.checked,
             called |-> [kind |-> "none", idx |-> 0],
             response |-> NotFoundResponse]

ResourceCall(req) ==
    /\ service # None
    /\ LET r == ResourceServiceCall(service[1], req)
       IN /\ request' = Some(req)
          /\ checked' = r.checked
          /\ called' = Some(r.called)
          /\ response' = Some(r.response)
    /\ hreturned' = None
    /\ presult' = None
    /\ UNCHANGED <<resource, factory_ref, endpoint, create, creturned, cresult, service>>
    /\ UNCHANGED <<afterMw, sready, filterVars, tupleVars, headersVars, framedVars>>

\* what polling the readiness of the route services and of the default would return
\* taken together
ChildReadiness == {"Ready", "NotReady"}

\* poll_ready handing on the readiness of the route services and the default
ResourceServicePollReadyOfChildren(srv, children) == children

\* ResourceService::poll_ready: Ok(Async::Ready(()))
ResourceServicePollReady(srv, children) == "Ready"

\* ResourceEndpointService::poll_ready: self.srv.poll_ready()
ResourceEndpointServicePollReady(srv, children) == ResourceServicePollReady(srv, children)

\* poll_ready of the compiled service, through ResourceEndpointService
ResourcePollReady(children) ==
    /\ service # None
    /\ sready' = Some([children |-> children,
                       service |-> ResourceServicePollReady(service[1], children),
                       endpoint |-> ResourceEndpointServicePollReady(service[1], children)])
    /\ UNCHANGED <<resource, factory_ref, endpoint, create, creturned, cresult, service>>
    /\ UNCHANGED <<request, checked, called, response, hreturned, presult>>
    /\ UNCHANGED <<afterMw, filterVars, tupleVars, headersVars, framedVars>>

\* statuses of the responses a handler or the default service answers with
HandlerStatuses == {200}

\* what one poll of the future of a route's handler returns (Error = Error)
HandlerOutcomes ==
    {[kind |-> "NotReady", res |-> 0, err |-> ""]}
        \cup {[kind |-> "Ready", res |-> st, err |-> ""] : st \in HandlerStatuses}
        \cup {[kind |-> "Err", res |-> 0, err |-> e] : e \in Errors}

\* what one poll of the future of the default service returns (Error = ())
DefaultFutureOutcomes ==
    {[kind |-> "NotReady", res |-> 0, err |-> ""]}
        \cup {[kind |-> "Ready", res |-> st, err |-> ""] : st \in HandlerStatuses}
        \cup {[kind |-> "Err", res |-> 0, err |-> "()"]}

\* err.into(): the response an Error answers with (its error_response)
ErrorIntoResponse(e) == IF e = "e1" THEN 400 ELSE 500

\* the poll handing the error of the route's future on: Err(_) => Err(())
ResourceServiceResponsePollSurfacesErr(o) ==
    IF o.kind = "Err" THEN [kind |-> "Err", res |-> 0, err |-> "()"] ELSE o

\* ResourceServiceResponse::poll, the future of the route having returned o
ResourceServiceResponsePoll(o) ==
    IF o.kind = "Ready" THEN [kind |-> "Ready", res |-> o.res, err |-> ""]
    ELSE IF o.kind = "NotReady" THEN [kind |-> "NotReady", res |-> 0, err |-> ""]
    ELSE [kind |-> "Ready", res |-> ErrorIntoResponse(o.err), err |-> ""]

\* the error of the default's future answered with a response, as a route's is
DefaultFuturePollConvertsErr(o) ==
    IF o.kind = "Err" THEN [kind |-> "Ready", res |-> 500, err |-> ""] ELSE o

\* Either::B(Either::A(default.call(req))): Either::poll hands on what the default's
\* future returns
DefaultFuturePoll(o) == o

\* one poll of the future returned by the last call
ResponsePoll(o) ==
    /\ response # None
    /\ response[1].kind \in {"ResourceServiceResponse", "DefaultFuture"}
    /\ IF presult = None THEN TRUE ELSE presult[1].kind = "NotReady"
    /\ IF response[1].kind = "ResourceServiceResponse"
       THEN o \in HandlerOutcomes /\ presult' = Some(ResourceServiceResponsePoll(o))
       ELSE o \in DefaultFutureOutcomes /\ presult' = Some(DefaultFuturePoll(o))
    /\ hreturned' = Some(o)
    /\ UNCHANGED <<resource, factory_ref, endpoint, create, creturned, cresult,
                   service, request, checked, called, response>>
    /\ UNCHANGED <<afterMw, sready, filterVars, tupleVars, headersVars, framedVars>>

(***************************************************************************)
(* extractor.rs: tuple_from_req!                                           *)
(***************************************************************************)
MaxArity == 3

\* what one poll of a member future returns
MemberOutcomes ==
    {[kind |-> "NotReady", v |-> ""]}
        \cup {[kind |-> "Ready", v |-> v] : v \in Values}
        \cup {[kind |-> "Err", v |-> e] : e \in Errors}

\* e.into(): the member's error wrapped into the crate-wide Error
IntoError(e) == <<"Error", e>>

TupleIdle ==
    /\ tup = None
    /\ returned = <<>>
    /\ polled = <<>>
    /\ skipped = <<>>
    /\ tresult = None
    /\ wrapped = None
    /\ wreturned = None
    /\ wresult = None

\* FromRequest::from_request for a tuple of n members
TupleFromRequestNew(n) ==
    [items |-> [k \in 1..n |-> None],
     futs |-> [k \in 1..n |-> "started"],
     state |-> "NotReady"]

TupleFromRequest(n) ==
    /\ tup = None
    /\ wrapped = None
    /\ tup' = Some(TupleFromRequestNew(n))
    /\ returned' = [k \in 1..n |-> None]
    /\ polled' = <<>>
    /\ skipped' = [k \in 1..n |-> None]
    /\ tresult' = None
    /\ UNCHANGED <<wrapped, wreturned, wresult>>
    /\ UNCHANGED <<filterVars, resourceVars, headersVars, framedVars, extractVars>>

NoRet == [kind |-> "", tuple |-> <<>>, err |-> <<>>]

\* a pending member ends the poll at once, as try_ready! would
TupleMemberPollSequential(t, i, o) ==
    IF o.kind = "Ready"
    THEN [t |-> [t EXCEPT !.items[i] = Some(o.v), !.futs[i] = "ready"],
          clear |-> FALSE, stop |-> FALSE, ret |-> NoRet]
    ELSE IF o.kind = "NotReady"
    THEN [t |-> t, clear |-> TRUE, stop |-> TRUE,
          ret |-> [kind |-> "NotReady", tuple |-> <<>>, err |-> <<>>]]
    ELSE [t |-> [t EXCEPT !.futs[i] = "failed", !.state = "Err"],
          clear |-> FALSE, stop |-> TRUE,
          ret |-> [kind |-> "Err", tuple |-> <<>>, err |-> IntoError(o.v)]]

\* a failed member is treated as one that is not ready yet
TupleMemberPollSwallowsErr(t, i, o) ==
    IF o.kind = "Ready"
    THEN [t |-> [t EXCEPT !.items[i] = Some(o.v), !.futs[i] = "ready"],
          clear |-> FALSE, stop |-> FALSE, ret |-> NoRet]
    ELSE IF o.kind = "NotReady"
    THEN [t |-> t, clear |-> TRUE, stop |-> FALSE, ret |-> NoRet]
    ELSE [t |-> [t EXCEPT !.futs[i] = "failed"],
          clear |-> TRUE, stop |-> FALSE, ret |-> NoRet]

\* the item of a ready member is not kept in its slot
TupleMemberPollForgetsItem(t, i, o) ==
    IF o.kind = "Ready"
    THEN [t |-> [t EXCEPT !.futs[i] = "ready"], clear |-> TRUE, stop |-> FALSE, ret |-> NoRet]
    ELSE IF o.kind = "NotReady"
    THEN [t |-> t, clear |-> TRUE, stop |-> FALSE, ret |-> NoRet]
    ELSE [t |-> [t EXCEPT !.futs[i] = "failed", !.state = "Err"],
          clear |-> FALSE, stop |-> TRUE,
          ret |-> [kind |-> "Err", tuple |-> <<>>, err |-> IntoError(o.v)]]

\* match self.futs.$n.poll() { Ready(item) => ..., NotReady => ready = false, Err(e) => return }
\* for member i, whose future returned o
TupleMemberPoll(t, i, o) ==
    IF o.kind = "Ready"
    THEN [t |-> [t EXCEPT !.items[i] = Some(o.v), !.futs[i] = "ready"],
          clear |-> FALSE, stop |-> FALSE, ret |-> NoRet]
    ELSE IF o.kind = "NotReady"
    THEN [t |-> t, clear |-> TRUE, stop |-> FALSE, ret |-> NoRet]
    ELSE [t |-> [t EXCEPT !.futs[i] = "failed", !.state = "Err"],
          clear |-> FALSE, stop |-> TRUE,
          ret |-> [kind |-> "Err", tuple |-> <<>>, err |-> IntoError(o.v)]]

\* the tuple assembled from the slots in reverse
TupleFinishReversed(t, ready, pl) ==
    IF ready /\ \E k \in 1..Len(t.items) : t.items[k] = None
    THEN [t |-> [t EXCEPT !.state = "Panic"], polled |-> pl,
          ret |-> [kind |-> "Panic", tuple |-> <<>>, err |-> <<>>]]
    ELSE IF ready
    THEN [t |-> [t EXCEPT !.items = [k \in 1..Len(t.items) |-> None], !.state = "Ready"],
          polled |-> pl,
          ret |-> [kind |-> "Ready",
                   tuple |-> [k \in 1..Len(t.items) |-> t.items[Len(t.items) + 1 - k][1]],
                   err |-> <<>>]]
    ELSE [t |-> t, polled |-> pl,
          ret |-> [kind |-> "NotReady", tuple |-> <<>>, err |-> <<>>]]

\* Ready as soon as the first slot is filled, the empty slots left out of the tuple
TupleFinishPartial(t, ready, pl) ==
    IF ready \/ t.items[1] # None
    THEN [t |-> [t EXCEPT !.items = [k \in 1..Len(t.items) |-> None], !.state = "Ready"],
          polled |-> pl,
          ret |-> [kind |-> "Ready",
                   tuple |-> [k \in 1..Len(t.items) |->
                                 IF t.items[k] # None THEN t.items[k][1] ELSE ""],
                   err |-> <<>>]]
    ELSE [t |-> t, polled |-> pl,
          ret |-> [kind |-> "NotReady", tuple |-> <<>>, err |-> <<>>]]

\* if ready { Ok(Async::Ready(($(self.items.$n.take().unwrap(),)+))) } else { Ok(Async::NotReady) }
TupleFinish(t, ready, pl) ==
    IF ready /\ \E k \in 1..Len(t.items) : t.items[k] = None
    THEN \* unwrap() on an empty slot
         [t |-> [t EXCEPT !.state = "Panic"], polled |-> pl,
          ret |-> [kind |-> "Panic", tuple |-> <<>>, err |-> <<>>]]
    ELSE IF ready
    THEN [t |-> [t EXCEPT !.items = [k \in 1..Len(t.items) |-> None], !.state = "Ready"],
          polled |-> pl,
          ret |-> [kind |-> "Ready",
                   tuple |-> [k \in 1..Len(t.items) |-> t.items[k][1]],
                   err |-> <<>>]]
    ELSE [t |-> t, polled |-> pl,
          ret |-> [kind |-> "NotReady", tuple |-> <<>>, err |-> <<>>]]

RECURSIVE TuplePollFromFilledToo(_, _, _, _, _)
\* the sequence without its is_none tests: every member is polled
TuplePollFromFilledToo(t, i, out, ready, pl) ==
    IF i > Len(t.items) THEN TupleFinish(t, ready, pl)
    ELSE LET m == TupleMemberPoll(t, i, out[i])
         IN IF m.stop
            THEN [t |-> m.t, polled |-> Append(pl, i), ret |-> m.ret]
            ELSE TuplePollFromFilledToo(m.t, i + 1, out, ready /\ ~m.clear, Append(pl, i))

RECURSIVE TuplePollFromLastError(_, _, _, _, _)
\* the sequence going on after a member's error: every empty-slot member is polled and
\* the poll returns the error of the last one that failed
TuplePollFromLastError(t, i, out, ready, pl) ==
    IF i > Len(t.items) THEN TupleFinish(t, ready, pl)
    ELSE IF t.items[i] # None THEN TuplePollFromLastError(t, i + 1, out, ready, pl)
    ELSE LET m == TupleMemberPoll(t, i, out[i])
         IN IF m.stop
            THEN LET rest == TuplePollFromLastError(m.t, i + 1, out, FALSE, Append(pl, i))
                 IN [t |-> rest.t, polled |-> rest.polled,
                     ret |-> IF rest.ret.kind = "Err" THEN rest.ret ELSE m.ret]
            ELSE TuplePollFromLastError(m.t, i + 1, out, ready /\ ~m.clear, Append(pl, i))

RECURSIVE TuplePollFrom(_, _, _, _, _)
\* the $( if self.items.$n.is_none() { ... } )+ sequence from member i on
TuplePollFrom(t, i, out, ready, pl) ==
    IF i > Len(t.items) THEN TupleFinish(t, ready, pl)
    ELSE IF t.items[i] # None THEN TuplePollFrom(t, i + 1, out, ready, pl)
    ELSE LET m == TupleMemberPoll(t, i, out[i])
         IN IF m.stop
            THEN [t |-> m.t, polled |-> Append(pl, i), ret |-> m.ret]
            ELSE TuplePollFrom(m.t, i + 1, out, ready /\ ~m.clear, Append(pl, i))

\* Future::poll of the tuple future
TupleFuturePoll(t, out) == TuplePollFrom(t, 1, out, TRUE, <<>>)

TuplePoll(out) ==
    /\ tup # None
    /\ tup[1].state = "NotReady"
    /\ LET r == TupleFuturePoll(tup[1], out)
       IN /\ tup' = Some(r.t)
          /\ polled' = r.polled
          /\ skipped' = [k \in 1..Len(returned) |->
                            IF tup[1].items[k] = None /\ ~InSeq(k, r.polled)
                            THEN Some(out[k]) ELSE None]
          /\ tresult' = Some(r.ret)
          /\ returned' = [k \in 1..Len(returned) |->
                             IF InSeq(k, r.polled) THEN Some(out[k]) ELSE returned[k]]
    /\ UNCHANGED <<wrapped, wreturned, wresult>>
    /\ UNCHANGED <<filterVars, resourceVars, headersVars, framedVars, extractVars>>

(***************************************************************************)
(* extractor.rs: FromRequest for Option<T> and for Result<T, T::Error>     *)
(***************************************************************************)
\* Ok(v) and Err(e) of a Result value
ResultOk(v) == <<"Ok", v>>
ResultErr(e) == <<"Err", e>>

\* future::ok(item) / future::err(e): what the closure handed to then returns
FutureOk(item) == [ok |-> TRUE, item |-> item, err |-> <<>>]
FutureErr(e) == [ok |-> FALSE, item |-> <<>>, err |-> e]

\* the closure passing T's error on: Err(e) => future::err(e.into())
OptionThenSurfacesErr(r) ==
    IF r.kind = "Ready" THEN FutureOk(Some(r.v)) ELSE FutureErr(IntoError(r.v))

\* |r| match r { Ok(v) => future::ok(Some(v)), Err(_) => future::ok(None) }
OptionThen(r) ==
    IF r.kind = "Ready" THEN FutureOk(Some(r.v)) ELSE FutureOk(None)

\* the closure converting T's error on the way: Err(e) => ok(Err(e.into()))
ResultThenConvertsErr(r) ==
    IF r.kind = "Ready" THEN FutureOk(ResultOk(r.v)) ELSE FutureOk(ResultErr(IntoError(r.v)))

\* |res| match res { Ok(v) => ok(Ok(v)), Err(e) => ok(Err(e)) }
ResultThen(r) ==
    IF r.kind = "Ready" THEN FutureOk(ResultOk(r.v)) ELSE FutureOk(ResultErr(r.v))

\* Box::new(T::from_request(req, cfg).then(...))
WrappedNew(kind) == [kind |-> kind, state |-> "NotReady"]

\* Future::poll of T::from_request(..).then(f), where T's future returned o: a pending
\* T leaves it pending; a resolved T is handed to the closure, whose FutureResult is
\* ready at once
ThenPoll(w, o) ==
    IF o.kind = "NotReady"
    THEN [w |-> w, ret |-> [kind |-> "NotReady", item |-> <<>>, err |-> <<>>]]
    ELSE LET b == IF w.kind = "Option" THEN OptionThen(o) ELSE ResultThen(o)
         IN IF b.ok
            THEN [w |-> [w EXCEPT !.state = "Ready"],
                  ret |-> [kind |-> "Ready", item |-> b.item, err |-> <<>>]]
            ELSE [w |-> [w EXCEPT !.state = "Err"],
                  ret |-> [kind |-> "Err", item |-> <<>>, err |-> b.err]]

\* <Option<T> as FromRequest>::from_request
OptionFromRequest ==
    /\ tup = None
    /\ wrapped = None
    /\ wrapped' = Some(WrappedNew("Option"))
    /\ wreturned' = None
    /\ wresult' = None
    /\ UNCHANGED <<tup, returned, polled, skipped, tresult>>
    /\ UNCHANGED <<filterVars, resourceVars, headersVars, framedVars, extractVars>>

\* <Result<T, T::Error> as FromRequest>::from_request
ResultFromRequest ==
    /\ tup = None
    /\ wrapped = None
    /\ wrapped' = Some(WrappedNew("Result"))
    /\ wreturned' = None
    /\ wresult' = None
    /\ UNCHANGED <<tup, returned, polled, skipped, tresult>>
    /\ UNCHANGED <<filterVars, resourceVars, headersVars, framedVars, extractVars>>

\* one poll of the wrapping future
WrappedPoll(o) ==
    /\ wrapped # None
    /\ wrapped[1].state = "NotReady"
    /\ LET r == ThenPoll(wrapped[1], o)
       IN /\ wrapped' = Some(r.w)
          /\ wresult' = Some(r.ret)
    /\ wreturned' = Some(o)
    /\ UNCHANGED <<tup, returned, polled, skipped, tresult>>
    /\ UNCHANGED <<filterVars, resourceVars, headersVars, framedVars, extractVars>>

(***************************************************************************)
(* middleware/defaultheaders.rs                                            *)
(***************************************************************************)
MaxHeaders == 2
MaxRc == 3
MaxInFlight == 1

CONTENT_TYPE == "content-type"
OctetStream == "application/octet-stream"

DhNames == {CONTENT_TYPE, "x-version"}
DhValues == {"0001", "1"}

\* DefaultHeaders::default
InnerDefault == [ct |-> FALSE, headers |-> HeaderMapNew]

HeadersIdle ==
    /\ inner = InnerDefault
    /\ rc = 1
    /\ panicked = FALSE
    /\ inflight = <<>>
    /\ usedInner = None
    /\ innerRes = None
    /\ outRes = None
    /\ readiness = None

\* Rc::get_mut hands the Inner out whatever the count
RcGetMutShared(count) == TRUE

\* Rc::get_mut(&mut self.inner) is Some only for the one handle on the Inner
RcGetMut(count) == count = 1

\* DefaultHeaders::header
DefaultHeadersHeader(in, k, v) == [in EXCEPT !.headers = HeaderMapAppend(@, k, v)]

DhHeader(k, v) ==
    /\ ~panicked
    /\ Len(HeaderMapIter(inner.headers)) < MaxHeaders
    /\ IF RcGetMut(rc)
       THEN inner' = DefaultHeadersHeader(inner, k, v) /\ UNCHANGED panicked
       ELSE panicked' = TRUE /\ UNCHANGED inner
    /\ UNCHANGED <<rc, inflight, usedInner, innerRes, outRes, readiness>>
    /\ UNCHANGED <<filterVars, resourceVars, tupleVars, framedVars>>

\* DefaultHeaders::content_type
DefaultHeadersContentType(in) == [in EXCEPT !.ct = TRUE]

DhContentType ==
    /\ ~panicked
    /\ IF RcGetMut(rc)
       THEN inner' = DefaultHeadersContentType(inner) /\ UNCHANGED panicked
       ELSE panicked' = TRUE /\ UNCHANGED inner
    /\ UNCHANGED <<rc, inflight, usedInner, innerRes, outRes, readiness>>
    /\ UNCHANGED <<filterVars, resourceVars, tupleVars, framedVars>>

\* #[derive(Clone)]: a further handle on the same Inner
DhClone ==
    /\ ~panicked
    /\ rc < MaxRc
    /\ rc' = rc + 1
    /\ UNCHANGED <<inner, panicked, inflight, usedInner, innerRes, outRes, readiness>>
    /\ UNCHANGED <<filterVars, resourceVars, tupleVars, framedVars>>

\* a clone is dropped
DhDrop ==
    /\ ~panicked
    /\ rc - Len(inflight) > 1
    /\ rc' = rc - 1
    /\ UNCHANGED <<inner, panicked, inflight, usedInner, innerRes, outRes, readiness>>
    /\ UNCHANGED <<filterVars, resourceVars, tupleVars, framedVars>>

DhRequests == {"req1", "req2"}

\* poll_ready that waits for the calls in flight
DefaultHeadersPollReadyWhenIdle(pending) == IF pending = <<>> THEN "Ready" ELSE "NotReady"

\* Transform::poll_ready: Ok(Async::Ready(()))
DefaultHeadersPollReady(pending) == "Ready"

DhPollReady ==
    /\ ~panicked
    /\ readiness' = Some(DefaultHeadersPollReady(inflight))
    /\ UNCHANGED <<inner, rc, panicked, inflight, usedInner, innerRes, outRes>>
    /\ UNCHANGED <<filterVars, resourceVars, tupleVars, framedVars>>

\* Transform::call up to the return of the boxed future: let inner = self.inner.clone();
\* srv.call(req).map(..): one call of the inner service, with the request as given
DefaultHeadersCall(in, req) == [req |-> req, srv |-> <<req>>, cfg |-> in]

DhCall(req) ==
    /\ ~panicked
    /\ Len(inflight) < MaxInFlight
    /\ inflight' = Append(inflight, DefaultHeadersCall(inner, req))
    /\ rc' = rc + 1
    /\ UNCHANGED <<inner, panicked, usedInner, innerRes, outRes, readiness>>
    /\ UNCHANGED <<filterVars, resourceVars, tupleVars, framedVars>>

\* responses the inner service may resolve to
ResponseHeaderMaps ==
    {<<>>,
     <<[name |-> CONTENT_TYPE, values |-> <<"0002">>]>>,
     <<[name |-> "x-version", values |-> <<"existing">>]>>,
     <<[name |-> "x-version", values |-> <<"existing">>],
       [name |-> CONTENT_TYPE, values |-> <<"0002">>]>>}

InnerOutcomes ==
    {[ok |-> TRUE, variant |-> "Response", headers |-> h, err |-> ""] : h \in ResponseHeaderMaps}
        \cup {[ok |-> TRUE, variant |-> "Other", headers |-> <<>>, err |-> ""]}
        \cup {[ok |-> FALSE, variant |-> "", headers |-> <<>>, err |-> e] : e \in Errors}

RECURSIVE SetHeadersFromOverwrite(_, _, _)
\* the loop without its contains_key test
SetHeadersFromOverwrite(pairs, i, hdrs) ==
    IF i > Len(pairs) THEN hdrs
    ELSE SetHeadersFromOverwrite(pairs, i + 1, HeaderMapInsert(hdrs, pairs[i][1], pairs[i][2]))

RECURSIVE SetHeadersFromAppendsAll(_, _, _)
\* the loop adding every configured value to the response with append
SetHeadersFromAppendsAll(pairs, i, hdrs) ==
    IF i > Len(pairs) THEN hdrs
    ELSE SetHeadersFromAppendsAll(pairs, i + 1, HeaderMapAppend(hdrs, pairs[i][1], pairs[i][2]))

RECURSIVE SetHeadersFrom(_, _, _)
\* for (key, value) in inner.headers.iter() { if !contains_key(key) { insert(key, value) } }
SetHeadersFrom(pairs, i, hdrs) ==
    IF i > Len(pairs) THEN hdrs
    ELSE IF ~ContainsKey(hdrs, pairs[i][1])
         THEN SetHeadersFrom(pairs, i + 1, HeaderMapInsert(hdrs, pairs[i][1], pairs[i][2]))
    ELSE SetHeadersFrom(pairs, i + 1, hdrs)

\* the default content type set whenever the flag is set
SetContentTypeAlways(in, hdrs) ==
    IF in.ct THEN HeaderMapInsert(hdrs, CONTENT_TYPE, OctetStream) ELSE hdrs

\* if inner.ct && !contains_key(CONTENT_TYPE) { insert(CONTENT_TYPE, "application/octet-stream") }
SetContentType(in, hdrs) ==
    IF in.ct /\ ~ContainsKey(hdrs, CONTENT_TYPE)
    THEN HeaderMapInsert(hdrs, CONTENT_TYPE, OctetStream)
    ELSE hdrs

\* the closure applied to every variant of ServiceResponse
DefaultHeadersMapAnyVariant(in, res) ==
    [res EXCEPT !.headers =
         SetContentType(in, SetHeadersFrom(HeaderMapIter(in.headers), 1, res.headers))]

\* the closure handed to Future::map in Transform::call
DefaultHeadersMap(in, res) ==
    IF res.variant = "Response"
    THEN [res EXCEPT !.headers =
              SetContentType(in, SetHeadersFrom(HeaderMapIter(in.headers), 1, res.headers))]
    ELSE res

\* the future returned by call resolves: Future::map applies the closure to an Ok value
DefaultHeadersResolve(in, o) == IF o.ok THEN DefaultHeadersMap(in, o) ELSE o

DhResolve(k, o) ==
    /\ ~panicked
    /\ k \in 1..Len(inflight)
    /\ inflight' = [j \in 1..(Len(inflight) - 1) |-> IF j < k THEN inflight[j] ELSE inflight[j + 1]]
    /\ rc' = rc - 1
    /\ usedInner' = Some(inner)
    /\ innerRes' = Some(o)
    /\ outRes' = Some(DefaultHeadersResolve(inner, o))
    /\ UNCHANGED <<inner, panicked, readiness>>
    /\ UNCHANGED <<filterVars, resourceVars, tupleVars, framedVars>>

(***************************************************************************)
(* extractor.rs: PayloadConfig, FromRequest for Bytes and for String       *)
(***************************************************************************)
DefaultLimit == 262144
SmallLimit == 4096

\* mime::Mime values: type, subtype and parameters
APPLICATION_JSON == [type |-> "application", subtype |-> "json", params |-> <<>>]
TEXT_PLAIN == [type |-> "text", subtype |-> "plain", params |-> <<>>]
Mimes == {APPLICATION_JSON, TEXT_PLAIN}

\* Content-Type lines of the requests
PayloadContentTypes ==
    {"application/json", "application/x-www-form-urlencoded", "text/plain",
     "text/plain; charset=bogus", "a b"}
\* request bodies; the second is not valid in any charset
Payloads == {"hello=world", "0xff"}

\* TestRequest::default() / TestRequest::with_header(CONTENT_TYPE, v), with a payload
PayloadRequests ==
    [headers : {HeaderMapNew} \cup {HeaderMapFrom(<<<<CONTENT_TYPE, v>>>>) : v \in PayloadContentTypes},
     payload : Payloads]

\* ErrorBadRequest(cause), ErrorNotFound(cause): an Error answered with 400, with 404
ErrorBadRequest(cause) == [status |-> 400, cause |-> cause]
ErrorNotFound(cause) == [status |-> 404, cause |-> cause]
\* Error::from(ContentTypeError), Error::from(PayloadError)
ContentTypeErrorInto(e) == [status |-> 400, cause |-> e]
PayloadErrorInto(e) == [status |-> IF e = "Overflow" THEN 413 ELSE 400, cause |-> e]

\* str::parse::<Mime>
MimeFromStr(v) ==
    IF v = "application/json" THEN ResultOk(APPLICATION_JSON)
    ELSE IF v = "application/x-www-form-urlencoded"
    THEN ResultOk([type |-> "application", subtype |-> "x-www-form-urlencoded", params |-> <<>>])
    ELSE IF v = "text/plain" THEN ResultOk(TEXT_PLAIN)
    ELSE IF v = "text/plain; charset=bogus"
    THEN ResultOk([type |-> "text", subtype |-> "plain", params |-> <<<<"charset", "bogus">>>>])
    ELSE ResultErr("ParseError")

\* HttpMessage::mime_type: Ok(None) without a Content-Type, else the parsed Mime or
\* ContentTypeError::ParseError
MimeType(req) ==
    LET ct == HeaderMapGet(req.headers, CONTENT_TYPE)
    IN IF ct = None THEN ResultOk(None)
       ELSE IF MimeFromStr(ct[1])[1] = "Ok" THEN ResultOk(Some(MimeFromStr(ct[1])[2]))
       ELSE ResultErr("ParseError")

\* HttpMessage::encoding: self.mime_type()?, then the charset of the Content-Type,
\* UTF-8 without one, UnknownEncoding for a label that names no encoding
RequestEncoding(req) ==
    LET m == MimeType(req)
    IN IF m[1] = "Err" THEN ResultErr("ParseError")
       ELSE IF m[2] = None THEN ResultOk("utf-8")
       ELSE IF m[2][1].params = <<>> THEN ResultOk("utf-8")
       ELSE ResultErr("UnknownEncoding")

\* PayloadConfig::default
PayloadConfigDefault == [limit |-> DefaultLimit, mimetype |-> None]
\* PayloadConfig::limit
PayloadConfigLimit(self, l) == [self EXCEPT !.limit = l]
\* PayloadConfig::mimetype
PayloadConfigMimetype(self, mt) == [self EXCEPT !.mimetype = Some(mt)]

\* check_mimetype taking a request without Content-Type for one that needs no check
check_mimetypeAcceptsMissing(self, req) ==
    IF self.mimetype = None THEN ResultOk("()")
    ELSE IF MimeType(req)[1] = "Err" THEN ResultErr(ContentTypeErrorInto(MimeType(req)[2]))
    ELSE IF MimeType(req)[2] = None THEN ResultOk("()")
    ELSE IF self.mimetype[1] # MimeType(req)[2][1]
    THEN ResultErr(ErrorBadRequest("Unexpected Content-Type"))
    ELSE ResultOk("()")

\* PayloadConfig::check_mimetype
check_mimetype(self, req) ==
    IF self.mimetype = None THEN ResultOk("()")
    ELSE IF MimeType(req)[1] = "Err" THEN ResultErr(ContentTypeErrorInto(MimeType(req)[2]))
    ELSE IF MimeType(req)[2] = None THEN ResultErr(ErrorBadRequest("Content-Type is expected"))
    ELSE IF self.mimetype[1] # MimeType(req)[2][1]
    THEN ResultErr(ErrorBadRequest("Unexpected Content-Type"))
    ELSE ResultOk("()")

NoError == [status |-> 0, cause |-> ""]

\* Either::B(err(e)): a FutureResult holding the error; no MessageBody is made
EitherB(kind, e) ==
    [kind |-> kind, either |-> "B", err |-> e, body |-> None, state |-> "NotReady", read |-> FALSE]
\* Either::A(Box::new(MessageBody::new(req).limit(limit)..)): the future reading the body
EitherA(kind, req, limit) ==
    [kind |-> kind, either |-> "A", err |-> NoError,
     body |-> Some([payload |-> req.payload, limit |-> limit]),
     state |-> "NotReady", read |-> FALSE]

\* <Bytes as FromRequest>::from_request
BytesFromRequest(req, cfg) ==
    IF check_mimetype(cfg, req)[1] = "Err" THEN EitherB("Bytes", check_mimetype(cfg, req)[2])
    ELSE EitherA("Bytes", req, cfg.limit)

\* <String as FromRequest>::from_request
StringFromRequest(req, cfg) ==
    IF check_mimetype(cfg, req)[1] = "Err" THEN EitherB("String", check_mimetype(cfg, req)[2])
    ELSE IF RequestEncoding(req)[1] = "Err"
    THEN EitherB("String", ContentTypeErrorInto(RequestEncoding(req)[2]))
    ELSE EitherA("String", req, cfg.limit)

\* what one poll of MessageBody returns
BodyOutcomes == {"NotReady", "Ready", "Overflow"}

\* str::from_utf8(body) / encoding.decode(&body, DecoderTrap::Strict), map_err
Decode(payload) ==
    IF payload = "0xff" THEN ResultErr(ErrorBadRequest("Can not decode body"))
    ELSE ResultOk(<<"text", payload>>)

\* Future::poll of the Either: B resolves to its error at once; A polls the MessageBody,
\* which returned o, and (for String) decodes the body it read
PayloadFuturePoll(f, o) ==
    IF f.either = "B"
    THEN [f |-> [f EXCEPT !.state = "Err"],
          ret |-> [kind |-> "Err", item |-> <<>>, err |-> f.err]]
    ELSE IF o = "NotReady"
    THEN [f |-> [f EXCEPT !.read = TRUE],
          ret |-> [kind |-> "NotReady", item |-> <<>>, err |-> NoError]]
    ELSE IF o = "Overflow"
    THEN [f |-> [f EXCEPT !.read = TRUE, !.state = "Err"],
          ret |-> [kind |-> "Err", item |-> <<>>, err |-> PayloadErrorInto("Overflow")]]
    ELSE IF f.kind = "Bytes"
    THEN [f |-> [f EXCEPT !.read = TRUE, !.state = "Ready"],
          ret |-> [kind |-> "Ready", item |-> <<"bytes", f.body[1].payload>>, err |-> NoError]]
    ELSE IF Decode(f.body[1].payload)[1] = "Ok"
    THEN [f |-> [f EXCEPT !.read = TRUE, !.state = "Ready"],
          ret |-> [kind |-> "Ready", item |-> Decode(f.body[1].payload)[2], err |-> NoError]]
    ELSE [f |-> [f EXCEPT !.read = TRUE, !.state = "Err"],
          ret |-> [kind |-> "Err", item |-> <<>>, err |-> Decode(f.body[1].payload)[2]]]

ExtractIdle ==
    /\ payloadCfg = PayloadConfigDefault
    /\ payloadIn = None
    /\ payloadFut = None
    /\ payloadRes = None
    /\ pathIn = None
    /\ pathOut = None

otherThanExtract == <<tup, returned, polled, skipped, tresult, wrapped, wreturned, wresult,
                      filterVars, resourceVars, headersVars, framedVars>>

\* the configuration is set up before requests are extracted under it
PayloadLimit(l) ==
    /\ payloadIn = None
    /\ payloadCfg' = PayloadConfigLimit(payloadCfg, l)
    /\ UNCHANGED <<payloadIn, payloadFut, payloadRes, pathIn, pathOut>>
    /\ UNCHANGED otherThanExtract

PayloadMimetype(mt) ==
    /\ payloadIn = None
    /\ payloadCfg' = PayloadConfigMimetype(payloadCfg, mt)
    /\ UNCHANGED <<payloadIn, payloadFut, payloadRes, pathIn, pathOut>>
    /\ UNCHANGED otherThanExtract

PayloadBytesFromRequest(req) ==
    /\ payloadIn' = Some(req)
    /\ payloadFut' = Some(BytesFromRequest(req, payloadCfg))
    /\ payloadRes' = None
    /\ UNCHANGED <<payloadCfg, pathIn, pathOut>>
    /\ UNCHANGED otherThanExtract

PayloadStringFromRequest(req) ==
    /\ payloadIn' = Some(req)
    /\ payloadFut' = Some(StringFromRequest(req, payloadCfg))
    /\ payloadRes' = None
    /\ UNCHANGED <<payloadCfg, pathIn, pathOut>>
    /\ UNCHANGED otherThanExtract

PayloadPoll(o) ==
    /\ payloadFut # None
    /\ payloadFut[1].state = "NotReady"
    /\ LET r == PayloadFuturePoll(payloadFut[1], o)
       IN /\ payloadFut' = Some(r.f)
          /\ payloadRes' = Some(r.ret)
    /\ UNCHANGED <<payloadCfg, payloadIn, pathIn, pathOut>>
    /\ UNCHANGED otherThanExtract

(***************************************************************************)
(* extractor.rs: Path<T>                                                   *)
(***************************************************************************)
\* req.match_info(): the (name, segment) pairs of the matched pattern, in the order of
\* its placeholders; /{key}/{value}/ on /name/user1/ and on /name/32/, /{value}/ on
\* /32/ and on /abc/, and a pattern without placeholders
MatchInfos ==
    {<<>>,
     <<<<"key", "name">>, <<"value", "user1">>>>,
     <<<<"key", "name">>, <<"value", "32">>>>,
     <<<<"value", "32">>>>,
     <<<<"value", "abc">>>>}

\* the types T of Path<T>: MyStruct, Test2, Id, (String, String), (String, u8), i8,
\* Vec<String>
PathShapes ==
    {[kind |-> "struct", fields |-> <<<<"key", "String">>, <<"value", "String">>>>],
     [kind |-> "struct", fields |-> <<<<"key", "String">>, <<"value", "u32">>>>],
     [kind |-> "struct", fields |-> <<<<"id", "String">>>>],
     [kind |-> "tuple", fields |-> <<<<"0", "String">>, <<"1", "String">>>>],
     [kind |-> "tuple", fields |-> <<<<"0", "String">>, <<"1", "u8">>>>],
     [kind |-> "scalar", fields |-> <<<<"0", "i8">>>>],
     [kind |-> "seq", fields |-> <<>>]}

\* str::parse of a segment into the type of a field
ParseSegment(type, seg) ==
    IF type = "String" THEN ResultOk(<<"String", seg>>)
    ELSE IF seg = "32" THEN ResultOk(<<type, 32>>)
    ELSE ResultErr("invalid digit found in string")

\* the position of the param of this name, 0 when there is none
RECURSIVE ParamIndex(_, _, _)
ParamIndex(params, name, i) ==
    IF i > Len(params) THEN 0
    ELSE IF params[i][1] = name THEN i
    ELSE ParamIndex(params, name, i + 1)

\* field i of the shape onwards: a struct field takes the param of its name, a tuple
\* element or the scalar the param of its position
RECURSIVE DeserializeFields(_, _, _, _)
DeserializeFields(params, shape, i, acc) ==
    IF i > Len(shape.fields) THEN ResultOk(acc)
    ELSE LET k == IF shape.kind = "struct" THEN ParamIndex(params, shape.fields[i][1], 1)
                  ELSE i
         IN IF k = 0 THEN ResultErr("missing field")
            ELSE IF ParseSegment(shape.fields[i][2], params[k][2])[1] = "Err"
            THEN ResultErr(ParseSegment(shape.fields[i][2], params[k][2])[2])
            ELSE DeserializeFields(params, shape, i + 1,
                     Append(acc, ParseSegment(shape.fields[i][2], params[k][2])[2]))

\* de::Deserialize::deserialize(PathDeserializer::new(params)) for the type T
PathDeserialize(params, shape) ==
    IF shape.kind = "seq"
    THEN ResultOk([k \in 1..Len(params) |-> <<"String", params[k][2]>>])
    ELSE IF shape.kind = "scalar" /\ Len(params) # 1
    THEN ResultErr("wrong number of parameters")
    ELSE IF shape.kind = "tuple" /\ Len(params) < Len(shape.fields)
    THEN ResultErr("wrong number of parameters")
    ELSE DeserializeFields(params, shape, 1, <<>>)

\* Path::extract: deserialize(..).map(|inner| Path { inner })
PathExtract(params, shape) ==
    IF PathDeserialize(params, shape)[1] = "Ok"
    THEN ResultOk([inner |-> PathDeserialize(params, shape)[2]])
    ELSE PathDeserialize(params, shape)

\* from_request answering a failed extraction with 400
PathFromRequestBadRequest(params, shape) ==
    IF PathExtract(params, shape)[1] = "Ok"
    THEN [ok |-> TRUE, item |-> PathExtract(params, shape)[2], err |-> NoError]
    ELSE [ok |-> FALSE, item |-> [inner |-> <<>>],
          err |-> ErrorBadRequest(PathExtract(params, shape)[2])]

\* <Path<T> as FromRequest>::from_request:
\* Self::extract(req).map_err(ErrorNotFound).into_future()
PathFromRequest(params, shape) ==
    IF PathExtract(params, shape)[1] = "Ok"
    THEN [ok |-> TRUE, item |-> PathExtract(params, shape)[2], err |-> NoError]
    ELSE [ok |-> FALSE, item |-> [inner |-> <<>>],
          err |-> ErrorNotFound(PathExtract(params, shape)[2])]

PathExtraction(params, shape) ==
    /\ pathIn' = Some([params |-> params, shape |-> shape])
    /\ pathOut' = Some(PathFromRequest(params, shape))
    /\ UNCHANGED <<payloadCfg, payloadIn, payloadFut, payloadRes>>
    /\ UNCHANGED otherThanExtract

(***************************************************************************)
(* framed_route.rs                                                         *)
(***************************************************************************)
MaxFramedMethods == 2
MaxFramedHeaders == 1
MaxMaps == 1

\* path templates routes are built with, and paths of the requests
FramedTemplates == {"/index", "/{key}/"}
FramedPaths == {"/index", "/name/", "/a/b"}
FramedMethods == {"GET", "POST", "DELETE"}
FramedHeaderPairs == {<<"upgrade", "websocket">>}
\* the framed transports handed over with a request
Transports == {"io1", "io2"}
\* the header lines of a request: none, or the one a route may name
FramedRequestHeaders == {<<>>} \cup {<<p>> : p \in FramedHeaderPairs}
FramedRequests == [method : FramedMethods, path : FramedPaths, headers : FramedRequestHeaders]

\* ResourcePattern::new(path)
ResourcePatternNew(path) == [template |-> path]
\* Params::new()
ParamsNew == <<>>
\* ResourcePattern::match_with_params(&req, 0): the params of the match, or None
MatchWithParams(pattern, req) ==
    IF pattern.template = "/index" /\ req.path = "/index" THEN Some(ParamsNew)
    ELSE IF pattern.template = "/{key}/" /\ req.path = "/name/"
         THEN Some(<<<<"key", "name">>>>)
    ELSE None

FramedIdle ==
    /\ froute = None
    /\ ffactory = None
    /\ fcreate = None
    /\ fservice = None
    /\ fin = None
    /\ fout = None

\* FramedRoutePatternBuilder::new(path)
FramedRoutePatternBuilderNew(path) ==
    [stage |-> "PatternBuilder", service |-> <<>>, pattern |-> ResourcePatternNew(path),
     methods |-> <<>>, headers |-> <<>>]

\* self.methods.push(method)
PushMethod(r, m) == [r EXCEPT !.methods = Append(@, m)]

\* no route has been started yet
NoFramedRoute == froute = None /\ ffactory = None

framedBuilderFrame == <<ffactory, fcreate, fservice, fin, fout,
                        filterVars, resourceVars, tupleVars, headersVars>>

\* FramedRoute::build
FramedRouteBuild(path) ==
    /\ NoFramedRoute
    /\ froute' = Some(FramedRoutePatternBuilderNew(path))
    /\ UNCHANGED framedBuilderFrame

\* FramedRoute::get
FramedRouteGet(path) ==
    /\ NoFramedRoute
    /\ froute' = Some(PushMethod(FramedRoutePatternBuilderNew(path), "GET"))
    /\ UNCHANGED framedBuilderFrame

\* FramedRoute::post
FramedRoutePost(path) ==
    /\ NoFramedRoute
    /\ froute' = Some(PushMethod(FramedRoutePatternBuilderNew(path), "POST"))
    /\ UNCHANGED framedBuilderFrame

\* FramedRoute::put
FramedRoutePut(path) ==
    /\ NoFramedRoute
    /\ froute' = Some(PushMethod(FramedRoutePatternBuilderNew(path), "PUT"))
    /\ UNCHANGED framedBuilderFrame

\* FramedRoute::delete
FramedRouteDelete(path) ==
    /\ NoFramedRoute
    /\ froute' = Some(PushMethod(FramedRoutePatternBuilderNew(path), "DELETE"))
    /\ UNCHANGED framedBuilderFrame

\* FramedRoute::new(pattern, factory)
FramedRouteNew(path) ==
    /\ NoFramedRoute
    /\ froute' = Some([stage |-> "Route", service |-> <<"factory">>,
                       pattern |-> ResourcePatternNew(path),
                       methods |-> <<>>, headers |-> <<>>])
    /\ UNCHANGED framedBuilderFrame

\* FramedRouteBuilder::new(path, factory)
FramedRouteBuilderNew(path) ==
    /\ NoFramedRoute
    /\ froute' = Some([stage |-> "RouteBuilder", service |-> <<"factory">>,
                       pattern |-> ResourcePatternNew(path),
                       methods |-> <<>>, headers |-> <<>>])
    /\ UNCHANGED framedBuilderFrame

\* FramedRoutePatternBuilder::method, FramedRouteBuilder::method, FramedRoute::method
FramedMethod(m) ==
    /\ froute # None
    /\ Len(froute[1].methods) < MaxFramedMethods
    /\ froute' = Some(PushMethod(froute[1], m))
    /\ UNCHANGED framedBuilderFrame

\* FramedRoute::header
FramedHeader(h) ==
    /\ froute # None
    /\ froute[1].stage = "Route"
    /\ Len(froute[1].headers) < MaxFramedHeaders
    /\ froute' = Some([froute[1] EXCEPT !.headers = Append(@, h)])
    /\ UNCHANGED framedBuilderFrame

\* FramedRoutePatternBuilder::map, FramedRouteBuilder::map
FramedMap ==
    /\ froute # None
    /\ froute[1].stage \in {"PatternBuilder", "RouteBuilder"}
    /\ Len(froute[1].service) < MaxMaps
    /\ froute' = Some([froute[1] EXCEPT !.stage = "RouteBuilder",
                                        !.service = Append(@, "md")])
    /\ UNCHANGED framedBuilderFrame

\* FramedRoutePatternBuilder::with, FramedRouteBuilder::with
FramedWith ==
    /\ froute # None
    /\ froute[1].stage \in {"PatternBuilder", "RouteBuilder"}
    /\ froute' = Some([froute[1] EXCEPT !.stage = "Route",
                                        !.service = @ \o <<"FramedExtract", "FramedHandle">>])
    /\ UNCHANGED framedBuilderFrame

\* HttpServiceFactory::create consumes the route
FramedRouteCreate ==
    /\ froute # None
    /\ froute[1].stage = "Route"
    /\ ffactory' = Some([service |-> froute[1].service, pattern |-> froute[1].pattern,
                         methods |-> froute[1].methods, headers |-> froute[1].headers])
    /\ froute' = None
    /\ UNCHANGED <<fcreate, fservice, fin, fout>>
    /\ UNCHANGED <<filterVars, resourceVars, tupleVars, headersVars>>

\* FramedRouteFactory::new_service
FramedFactoryNewService ==
    /\ ffactory # None
    /\ fcreate = None
    /\ fcreate' = Some([fut |-> ffactory[1].service, pattern |-> ffactory[1].pattern,
                        methods |-> ffactory[1].methods, headers |-> ffactory[1].headers,
                        state |-> "NotReady"])
    /\ UNCHANGED <<froute, ffactory, fservice, fin, fout>>
    /\ UNCHANGED <<filterVars, resourceVars, tupleVars, headersVars>>

\* CreateRouteService::poll: let service = try_ready!(self.fut.poll()); o is what
\* self.fut.poll() returns
CreateRouteServicePoll(c, o) ==
    IF o = "Ready"
    THEN [c |-> [c EXCEPT !.state = "Ready"],
          srv |-> Some([service |-> c.fut, pattern |-> c.pattern,
                        methods |-> c.methods, headers |-> c.headers])]
    ELSE IF o = "NotReady" THEN [c |-> c, srv |-> None]
    ELSE [c |-> [c EXCEPT !.state = "Err"], srv |-> None]

FramedCreatePoll(o) ==
    /\ fcreate # None
    /\ fcreate[1].state = "NotReady"
    /\ LET r == CreateRouteServicePoll(fcreate[1], o)
       IN /\ fcreate' = Some(r.c)
          /\ fservice' = IF r.srv # None THEN r.srv ELSE fservice
    /\ UNCHANGED <<froute, ffactory, fin, fout>>
    /\ UNCHANGED <<filterVars, resourceVars, tupleVars, headersVars>>

\* self.service.call(FramedRequest::new(WebRequest::new(state, req, params), framed))
InnerCall(req, params, framed) == [req |-> req, params |-> params, framed |-> framed]

\* call going through the tests of handle
FramedRouteServiceCallChecks(srv, req, framed) ==
    IF (srv.methods = <<>> \/ InSeq(req.method, srv.methods))
          /\ MatchWithParams(srv.pattern, req) # None
    THEN [ok |-> TRUE,
          call |-> Some(InnerCall(req, MatchWithParams(srv.pattern, req)[1], framed)),
          back |-> None]
    ELSE [ok |-> FALSE, call |-> None, back |-> Some(<<req, framed>>)]

\* FramedRouteService::call
FramedRouteServiceCall(srv, req, framed) ==
    [ok |-> TRUE, call |-> Some(InnerCall(req, ParamsNew, framed)), back |-> None]

\* handle without the test of the method list
FramedRouteServiceHandleAnyMethod(srv, req, framed) ==
    IF MatchWithParams(srv.pattern, req) # None
    THEN [ok |-> TRUE,
          call |-> Some(InnerCall(req, MatchWithParams(srv.pattern, req)[1], framed)),
          back |-> None]
    ELSE [ok |-> FALSE, call |-> None, back |-> Some(<<req, framed>>)]

\* handle declining a request that lacks a header pair of the route
FramedRouteServiceHandleChecksHeaders(srv, req, framed) ==
    IF /\ srv.methods = <<>> \/ InSeq(req.method, srv.methods)
       /\ \A k \in 1..Len(srv.headers) : InSeq(srv.headers[k], req.headers)
       /\ MatchWithParams(srv.pattern, req) # None
    THEN [ok |-> TRUE,
          call |-> Some(InnerCall(req, MatchWithParams(srv.pattern, req)[1], framed)),
          back |-> None]
    ELSE [ok |-> FALSE, call |-> None, back |-> Some(<<req, framed>>)]

\* FramedRouteService::handle
FramedRouteServiceHandle(srv, req, framed) ==
    IF srv.methods = <<>> \/ (srv.methods # <<>> /\ InSeq(req.method, srv.methods))
    THEN IF MatchWithParams(srv.pattern, req) # None
         THEN [ok |-> TRUE,
               call |-> Some(InnerCall(req, MatchWithParams(srv.pattern, req)[1], framed)),
               back |-> None]
         ELSE [ok |-> FALSE, call |-> None, back |-> Some(<<req, framed>>)]
    ELSE [ok |-> FALSE, call |-> None, back |-> Some(<<req, framed>>)]

FramedCall(req, framed) ==
    /\ fservice # None
    /\ fin' = Some([op |-> "call", req |-> req, framed |-> framed])
    /\ fout' = Some(FramedRouteServiceCall(fservice[1], req, framed))
    /\ UNCHANGED <<froute, ffactory, fcreate, fservice>>
    /\ UNCHANGED <<filterVars, resourceVars, tupleVars, headersVars>>

FramedHandle(req, framed) ==
    /\ fservice # None
    /\ fin' = Some([op |-> "handle", req |-> req, framed |-> framed])
    /\ fout' = Some(FramedRouteServiceHandle(fservice[1], req, framed))
    /\ UNCHANGED <<froute, ffactory, fcreate, fservice>>
    /\ UNCHANGED <<filterVars, resourceVars, tupleVars, headersVars>>

(***************************************************************************)
(* Specifications                                                          *)
(***************************************************************************)
InitFilter == FilterIdle /\ ResourceIdle /\ TupleIdle /\ HeadersIdle /\ FramedIdle /\ ExtractIdle

NextFilter ==
    \/ \E a \in FilterPool : FilterAny(a)
    \/ \E b \in FilterPool : FilterOr(b)
    \/ \E a \in FilterPool : FilterAll(a)
    \/ \E b \in FilterPool : FilterAnd(b)
    \/ \E a \in FilterPool : FilterNot(a)
    \/ FilterGet
    \/ FilterPost
    \/ FilterPut
    \/ FilterDelete
    \/ FilterHead
    \/ FilterOptions
    \/ FilterConnect
    \/ FilterPatch
    \/ FilterTrace
    \/ \E m \in Methods : FilterMethod(m)
    \/ \E name \in HeaderFilterNames, value \in HeaderFilterValues : FilterHeader(name, value)
    \/ \E h \in HostNames : FilterHost(h)
    \/ \E s \in Schemes : FilterScheme(s)
    \/ \E req \in FilterRequests : FilterCheck(req)
    \/ FilterCheckAgain

SpecFilter == InitFilter /\ [][NextFilter]_vars

InitResource == FilterIdle /\ ResourceIdle /\ TupleIdle /\ HeadersIdle /\ FramedIdle /\ ExtractIdle

NextResource ==
    \/ \E fl \in RouteFilterChoices : ResourceRoute(fl)
    \/ ResourceGet
    \/ ResourcePost
    \/ ResourcePut
    \/ ResourceDelete
    \/ ResourceHead
    \/ \E m \in {"GET"} : ResourceMethod(m)
    \/ ResourceTo
    \/ ResourceToAsync
    \/ ResourceMiddleware
    \/ ResourceDefaultResource
    \/ ResourceIntoNewService
    \/ ResourceNewService
    \/ ResourcePoll
    \/ \E req \in DispatchRequests : ResourceCall(req)
    \/ \E o \in HandlerOutcomes \cup DefaultFutureOutcomes : ResponsePoll(o)

SpecResource == InitResource /\ [][NextResource]_vars

\* the construction polled to its end: the task is woken and polls the construction
\* again as long as it returned NotReady, and the construction future of each child
\* that has not returned Ready yet returns Ready or an error in the end
InitResourceLive == InitResource

\* a poll in which the construction future of route i, not ready so far, returns Ready
RouteReadyPoll(i) ==
    /\ create # None
    /\ i <= Len(create[1].fut)
    /\ \E dout \in DefaultOutcomes(create[1]), out \in PolledOutcomes(create[1]) :
          /\ create[1].fut[i].kind = "Future"
          /\ out[i] = "Ready"
          /\ ResourcePollWith(dout, out)

\* a poll in which the default's construction future, not ready so far, returns Ready
DefaultReadyPoll ==
    /\ create # None
    /\ create[1].default_fut # None
    /\ create[1].default = None
    /\ \E out \in PolledOutcomes(create[1]) : ResourcePollWith("Ready", out)

NextResourceLive ==
    \/ ResourceGet
    \/ ResourcePost
    \/ ResourceDefaultResource
    \/ ResourceIntoNewService
    \/ ResourceNewService
    \/ ResourcePoll

SpecResourceLive ==
    /\ InitResourceLive
    /\ [][NextResourceLive]_vars
    /\ WF_vars(ResourcePoll)
    /\ WF_vars(DefaultReadyPoll)
    /\ \A i \in 1..MaxRoutes : WF_vars(RouteReadyPoll(i))

\* the compiled service at work: a Resource of plain, GET and POST routes with or
\* without a default is compiled, polled for readiness and called
InitResourceService == InitResource

NextResourceService ==
    \/ \E fl \in RouteFilterChoices : ResourceRoute(fl)
    \/ ResourceGet
    \/ ResourcePost
    \/ ResourceDefaultResource
    \/ ResourceIntoNewService
    \/ ResourceNewService
    \/ ResourcePoll
    \/ \E ch \in ChildReadiness : ResourcePollReady(ch)
    \/ \E req \in DispatchRequests : ResourceCall(req)
    \/ \E o \in HandlerOutcomes \cup DefaultFutureOutcomes : ResponsePoll(o)

SpecResourceService == InitResourceService /\ [][NextResourceService]_vars

InitTuple == FilterIdle /\ ResourceIdle /\ TupleIdle /\ HeadersIdle /\ FramedIdle /\ ExtractIdle

NextTuple ==
    \/ \E n \in 1..MaxArity : TupleFromRequest(n)
    \/ \E out \in [1..MaxArity -> MemberOutcomes] : TuplePoll(out)
    \/ OptionFromRequest
    \/ ResultFromRequest
    \/ \E o \in MemberOutcomes : WrappedPoll(o)

SpecTuple == InitTuple /\ [][NextTuple]_vars

\* the join polled to its end: the task is woken and polls the join again as long as
\* it returned NotReady, and the future of each member that is polled again and again
\* returns Ready or an error in the end
InitTupleLive == InitTuple

\* a poll of the join in which member i is polled and its future returns Ready
MemberReadyPoll(i) ==
    /\ tup # None
    /\ i <= Len(tup[1].items)
    /\ tup[1].items[i] = None
    /\ \E out \in [1..MaxArity -> MemberOutcomes] : out[i].kind = "Ready" /\ TuplePoll(out)

NextTupleLive ==
    \/ \E n \in 1..MaxArity : TupleFromRequest(n)
    \/ \E out \in [1..MaxArity -> MemberOutcomes] : TuplePoll(out)

SpecTupleLive ==
    /\ InitTupleLive
    /\ [][NextTupleLive]_vars
    /\ \A i \in 1..MaxArity : WF_vars(MemberReadyPoll(i))

InitHeaders == FilterIdle /\ ResourceIdle /\ TupleIdle /\ HeadersIdle /\ FramedIdle /\ ExtractIdle

NextHeaders ==
    \/ \E k \in DhNames, v \in DhValues : DhHeader(k, v)
    \/ DhContentType
    \/ DhClone
    \/ DhDrop
    \/ DhPollReady
    \/ \E req \in DhRequests : DhCall(req)
    \/ \E k \in 1..MaxInFlight, o \in InnerOutcomes : DhResolve(k, o)

SpecHeaders == InitHeaders /\ [][NextHeaders]_vars

InitFramed == FilterIdle /\ ResourceIdle /\ TupleIdle /\ HeadersIdle /\ FramedIdle /\ ExtractIdle

NextFramed ==
    \/ \E path \in FramedTemplates : FramedRouteBuild(path)
    \/ \E path \in FramedTemplates : FramedRouteGet(path)
    \/ \E path \in FramedTemplates : FramedRoutePost(path)
    \/ \E path \in FramedTemplates : FramedRoutePut(path)
    \/ \E path \in FramedTemplates : FramedRouteDelete(path)
    \/ \E path \in FramedTemplates : FramedRouteNew(path)
    \/ \E path \in FramedTemplates : FramedRouteBuilderNew(path)
    \/ \E m \in FramedMethods : FramedMethod(m)
    \/ \E h \in FramedHeaderPairs : FramedHeader(h)
    \/ FramedMap
    \/ FramedWith
    \/ FramedRouteCreate
    \/ FramedFactoryNewService
    \/ \E o \in ChildOutcomes : FramedCreatePoll(o)
    \/ \E req \in FramedRequests, framed \in Transports : FramedCall(req, framed)
    \/ \E req \in FramedRequests, framed \in Transports : FramedHandle(req, framed)

SpecFramed == InitFramed /\ [][NextFramed]_vars

InitExtract ==
    FilterIdle /\ ResourceIdle /\ TupleIdle /\ HeadersIdle /\ FramedIdle /\ ExtractIdle

NextExtract ==
    \/ \E l \in {DefaultLimit, SmallLimit} : PayloadLimit(l)
    \/ \E mt \in Mimes : PayloadMimetype(mt)
    \/ \E req \in PayloadRequests : PayloadBytesFromRequest(req)
    \/ \E req \in PayloadRequests : PayloadStringFromRequest(req)
    \/ \E o \in BodyOutcomes : PayloadPoll(o)
    \/ \E params \in MatchInfos, shape \in PathShapes : PathExtraction(params, shape)

SpecExtract == InitExtract /\ [][NextExtract]_vars

Init == InitFilter
Next == NextFilter \/ NextResource \/ NextResourceService \/ NextResourceLive \/ NextTuple \/ NextTupleLive \/ NextHeaders \/ NextFramed \/ NextExtract
Spec == Init /\ [][Next]_vars

(***************************************************************************)
(* Properties of ResourceService::call (SpecResource)                      *)
(***************************************************************************)
\* the routes of the compiled service that accept the request of the last call
Accepting == {i \in 1..Len(service[1].routes) : RouteCheck(service[1].routes[i], request[1])}
FirstAccepting == CHOOSE i \in Accepting : \A j \in Accepting : i <= j
UpTo(n) == [k \in 1..n |-> k]

\* C1: the request is handled by the lowest-index route that accepts it; exactly the
\* routes up to and including that one are checked, each once and in list order, and
\* no other route is called.
C1_FirstAcceptingRouteHandles ==
    request # None =>
        /\ Accepting # {} =>
              /\ called[1] = [kind |-> "route", idx |-> FirstAccepting]
              /\ checked = UpTo(FirstAccepting)
              /\ response[1].kind = "ResourceServiceResponse"
        /\ called[1].kind = "route" =>
              /\ called[1].idx \in Accepting
              /\ \A j \in 1..(called[1].idx - 1) : j \notin Accepting

\* routes [R1 accepts GET only, R2 accepts any]: POST falls through to R2
C1_Witness ==
    /\ request # None
    /\ Len(service[1].routes) = 2
    /\ service[1].routes[1] = RouteMethod(RouteBuild, "GET")
    /\ service[1].routes[2] = RouteBuild
    /\ request[1].method = "POST"
    /\ called[1] = [kind |-> "route", idx |-> 2]
    /\ checked = <<1, 2>>

\* C2: the default service is called only after the check of every route has returned
\* false; when no route accepts and a default is configured the response is the
\* default's; the default is never called for a request some route accepts.
C2_DefaultOnlyAfterAllDeclined ==
    request # None =>
        /\ called[1].kind = "default" =>
              /\ service[1].default # None
              /\ checked = UpTo(Len(service[1].routes))
              /\ Accepting = {}
        /\ (Accepting = {} /\ service[1].default # None) =>
              /\ called[1].kind = "default"
              /\ response[1].kind = "DefaultFuture"

\* a default is configured behind two routes that both decline
C2_Witness ==
    /\ request # None
    /\ Len(service[1].routes) = 2
    /\ Accepting = {}
    /\ called[1].kind = "default"
    /\ checked = <<1, 2>>

\* C3: when no route accepts and no default is configured (also with zero routes) the
\* call returns a future that is ready at once with Ok(404 Not Found), never an error.
C3_NotFoundWhenNothingMatches ==
    (request # None /\ Accepting = {} /\ service[1].default = None) =>
        /\ called[1].kind = "none"
        /\ response[1] = [kind |-> "FutureResult", ready |-> TRUE, ok |-> TRUE, status |-> 404]

\* a resource with zero routes and no default
C3_Witness ==
    /\ request # None
    /\ service[1].routes = <<>>
    /\ service[1].default = None
    /\ response[1].ready /\ response[1].ok /\ response[1].status = 404

(***************************************************************************)
(* Properties of Resource::middleware (SpecResource)                       *)
(***************************************************************************)
\* the step wraps the endpoint of the Resource under construction
MiddlewareStep ==
    IF resource = None \/ resource' = None THEN FALSE
    ELSE resource'[1].endpoint # resource[1].endpoint

\* C24: a middleware step leaves the route list, the default and the factory cell as
\* they were, so the request dispatch of the Resource is the same before and after.
C24_MiddlewareChangesOnlyEndpoint ==
    [][MiddlewareStep =>
          /\ resource'[1].routes = resource[1].routes
          /\ resource'[1].default = resource[1].default
          /\ factory_ref' = factory_ref]_vars

\* a Resource with two routes and a default whose endpoint is wrapped
C24_Witness ==
    /\ resource # None
    /\ resource[1].endpoint = <<"mw">>
    /\ Len(resource[1].routes) = 2
    /\ resource[1].default # None

(***************************************************************************)
(* Properties of ResourceServiceResponse::poll (SpecResource)              *)
(***************************************************************************)
\* C17: when the future of the matched route fails, the response future completes
\* with Ok and the response converted from the error; ResourceServiceResponse::poll
\* never returns Err, and hands on NotReady and a ready response as they are.
C17_RouteErrorBecomesResponse ==
    (presult # None /\ response[1].kind = "ResourceServiceResponse") =>
        /\ called[1].kind = "route"
        /\ presult[1].kind # "Err"
        /\ hreturned[1].kind = "Err" =>
              presult[1] = [kind |-> "Ready", res |-> ErrorIntoResponse(hreturned[1].err),
                            err |-> ""]
        /\ hreturned[1].kind = "NotReady" => presult[1].kind = "NotReady"
        /\ hreturned[1].kind = "Ready" =>
              presult[1] = [kind |-> "Ready", res |-> hreturned[1].res, err |-> ""]

\* the handler of the matched route fails with e1: the response future is ready
\* with the 400 response of e1
C17_Witness ==
    /\ presult # None
    /\ called[1].kind = "route"
    /\ hreturned[1] = [kind |-> "Err", res |-> 0, err |-> "e1"]
    /\ presult[1].kind = "Ready"
    /\ presult[1].res = 400

\* no route of the compiled service accepts the request of the last call
NoRouteAccepts ==
    \A i \in 1..Len(service[1].routes) : ~RouteCheck(service[1].routes[i], request[1])

\* C36: when no route accepts the request and a default is configured, the call
\* returns the future of the default service and its poll returns what that future
\* returns: an error of the default is the error of the response future, no response
\* is made of it.
C36_DefaultErrorSurfaces ==
    response # None =>
        /\ (NoRouteAccepts /\ service[1].default # None) =>
              /\ response[1].kind = "DefaultFuture"
              /\ called[1].kind = "default"
        /\ (presult # None /\ response[1].kind = "DefaultFuture") =>
              /\ NoRouteAccepts
              /\ presult[1] = hreturned[1]
              /\ hreturned[1].kind = "Err" => presult[1].kind = "Err"

\* a POST request to a Resource with a GET route and a default: the future of the
\* default fails and so does the response future
C36_Witness ==
    /\ presult # None
    /\ Len(service[1].routes) = 1
    /\ request[1].method = "POST"
    /\ checked = <<1>>
    /\ called[1].kind = "default"
    /\ hreturned[1].kind = "Err"
    /\ presult[1] = [kind |-> "Err", res |-> 0, err |-> "()"]

(***************************************************************************)
(* Properties of CreateResourceService::poll (SpecResource)                *)
(***************************************************************************)
\* the children of the construction: 0 is the default's future (when a default is
\* configured), i the construction future of the i-th declared route
Children ==
    (IF factory_ref[1].default # None THEN {0} ELSE {}) \cup (1..Len(factory_ref[1].routes))
LastReturn(k) == IF k = 0 THEN creturned[1].default ELSE creturned[1].routes[k]
\* a child that has neither returned Ready nor failed so far
Pending(k) == LastReturn(k) = None \/ LastReturn(k) = Some("NotReady")

\* the poll returned Ready only with every child having returned Ready, and the
\* service it built holds a route per declared route, and the default iff configured
ReadyOnlyWhenAllReady ==
    cresult = Some("Ready") =>
        /\ \A k \in Children : LastReturn(k) = Some("Ready")
        /\ service # None
        /\ Len(service[1].routes) = Len(factory_ref[1].routes)
        /\ (service[1].default # None) = (factory_ref[1].default # None)

\* C15 as claimed: Ready only when every child has returned Ready; while any child is
\* still pending every poll returns NotReady; the built service holds a route per
\* declared route plus the default when configured.
C15_NotReadyWhileAnyPending ==
    cresult # None =>
        /\ ReadyOnlyWhenAllReady
        /\ (\E k \in Children : Pending(k)) => cresult = Some("NotReady")

\* C15 as amended: Ready only when every child has returned Ready; while any child is
\* still pending no poll returns Ready: the poll returns NotReady, unless a child
\* polled in it fails, and then it returns the error, or the default's future, polled
\* again after it returned Ready, panics; the built service holds a route per
\* declared route plus the default when configured.
C15_ReadyOnlyWhenAllReady ==
    cresult # None =>
        /\ ReadyOnlyWhenAllReady
        /\ (\E k \in Children : Pending(k)) =>
              \/ cresult = Some("NotReady") /\ \A k \in Children : LastReturn(k) # Some("Err")
              \/ cresult = Some("Err") /\ \E k \in Children : LastReturn(k) = Some("Err")
              \/ cresult = Some("Panic") /\ LastReturn(0) = Some("Panic")

\* two routes and a default: the default and route 1 have returned Ready, route 2
\* is pending, and the poll returns NotReady
C15_Witness ==
    /\ cresult = Some("NotReady")
    /\ creturned[1].default = Some("Ready")
    /\ creturned[1].routes = <<Some("Ready"), Some("NotReady")>>
    /\ service = None

\* C16: when the construction future of a route or of the default fails, the poll
\* returns an error, whatever the other children returned, and no ResourceService
\* comes out of the construction.
C16_ChildErrorAbortsConstruction ==
    cresult # None =>
        /\ (\E k \in Children : LastReturn(k) = Some("Err")) =>
              /\ cresult = Some("Err")
              /\ create[1].state = "Err"
        /\ create[1].state = "Err" => service = None

\* route 1 is ready, the default is ready, route 2 fails
C16_Witness ==
    /\ cresult = Some("Err")
    /\ creturned[1].default = Some("Ready")
    /\ creturned[1].routes = <<Some("Ready"), Some("Err")>>
    /\ service = None

\* the routes of r, a Resource or a ResourceFactory, continue those of q in place
RoutesPrefix(q, r) ==
    /\ Len(q) <= Len(r)
    /\ SubSeq(r, 1, Len(q)) = q

\* C31: the compiled ResourceService holds its route services in the order the routes
\* were registered on the builder: each builder call leaves the routes registered so
\* far in place and adds at most one at the end, into_new_service hands the list over
\* as it is, the construction keeps each route in its slot whichever futures are ready,
\* and the service holds the routes slot by slot.
C31_RoutesInRegistrationOrder ==
    [][/\ IF resource # None /\ resource' # None
          THEN /\ RoutesPrefix(resource[1].routes, resource'[1].routes)
               /\ Len(resource'[1].routes) <= Len(resource[1].routes) + 1
          ELSE TRUE
       /\ IF resource # None /\ resource' = None
          THEN factory_ref'[1].routes = resource[1].routes
          ELSE factory_ref' = factory_ref
       /\ IF create' # None /\ create'[1].fut # <<>>
          THEN create'[1].fut = [i \in 1..Len(factory_ref'[1].routes) |->
                                   [kind |-> create'[1].fut[i].kind,
                                    route |-> factory_ref'[1].routes[i]]]
          ELSE TRUE
       /\ IF service' # None
          THEN service'[1].routes = factory_ref'[1].routes
          ELSE TRUE]_vars

\* a GET route registered before a POST route: the construction future of the second
\* has returned Ready and is held as a service, that of the first is still pending
C31_Witness ==
    /\ cresult = Some("NotReady")
    /\ factory_ref[1].routes = <<RouteMethod(RouteBuild, "GET"), RouteMethod(RouteBuild, "POST")>>
    /\ creturned[1].routes = <<Some("NotReady"), Some("Ready")>>
    /\ create[1].fut[1] = [kind |-> "Future", route |-> RouteMethod(RouteBuild, "GET")]
    /\ create[1].fut[2] = [kind |-> "Service", route |-> RouteMethod(RouteBuild, "POST")]

\* the step is into_new_service: it consumes the builder
IntoNewServiceStep == resource # None /\ resource' = None

\* C33: the factory cell is filled only by into_new_service, with every route and
\* the default the builder holds then, registered before or after middleware, and it
\* hands out the endpoint of the builder; from then on the cell is never empty and
\* new_service does not meet an empty cell; the ResourceService built holds every
\* route and the default of the factory.
C33_RegisteredAfterMiddlewareCompiled ==
    [][/\ IF IntoNewServiceStep
          THEN /\ factory_ref' = Some([routes |-> resource[1].routes,
                                       default |-> resource[1].default])
               /\ endpoint' = Some(resource[1].endpoint)
          ELSE factory_ref' = factory_ref /\ endpoint' = endpoint
       /\ endpoint' # None => factory_ref' # None
       /\ create' # Some(NewServicePanic)
       /\ IF service' # None
          THEN service'[1] = [routes |-> factory_ref'[1].routes,
                              default |-> factory_ref'[1].default]
          ELSE TRUE]_vars

\* a route and the default were registered after the middleware call; the service
\* built through the wrapped endpoint holds two routes and the default
C33_Witness ==
    /\ service # None
    /\ endpoint = Some(<<"mw">>)
    /\ afterMw = {"route", "default"}
    /\ Len(service[1].routes) = 2
    /\ service[1].routes[1] # service[1].routes[2]
    /\ service[1].default # None

\* C35: ResourceService::poll_ready returns Ready whether or not its route services
\* and its default are ready, and ResourceEndpointService::poll_ready returns what the
\* ResourceService it wraps returned.
C35_ServiceAlwaysReady ==
    sready # None =>
        /\ sready[1].service = "Ready"
        /\ sready[1].endpoint = sready[1].service

\* a service with a route and a default is polled for readiness while they are not
\* ready, and says Ready
C35_Witness ==
    /\ sready # None
    /\ sready[1].children = "NotReady"
    /\ service[1].routes # <<>>
    /\ service[1].default # None
    /\ sready[1].service = "Ready"
    /\ sready[1].endpoint = "Ready"

\* C30: while a Resource is being constructed, no child construction future, of a
\* route or of the default service, is polled again after it has returned Ready.
C30_ReadyChildNotPolledAgain ==
    creturned # None => creturned[1].again = {}

\* no construction future of a route is polled again after it has returned Ready:
\* the poll replaces it by the route service it produced
RouteFutureNotPolledAgain ==
    creturned # None => creturned[1].again \subseteq {0}

\* the construction has ended: with a ResourceService, or with the error of a child
\* that failed before it had returned Ready
ConstructionEnded ==
    \/ cresult = Some("Ready") /\ service # None
    \/ /\ cresult = Some("Err")
       /\ creturned[1].again = {}

\* C40: a CreateResourceService that is polled again whenever it returned NotReady,
\* and whose children's construction futures return Ready in the end, returns Ready
\* with a ResourceService, unless a child fails. (SpecResourceLive)
C40_ConstructionCompletes ==
    (create # None /\ create[1].state = "NotReady") ~> ConstructionEnded

\* without a default the construction ends: the route futures are polled until each
\* has returned Ready and never after
RoutesOnlyConstructionCompletes ==
    (create # None /\ create[1].state = "NotReady" /\ create[1].default_fut = None)
        ~> ConstructionEnded

(***************************************************************************)
(* Properties of the filter combinators (SpecFilter)                       *)
(***************************************************************************)
\* C4: a filter built as All(a).and(b)... matches iff every filter handed to All and
\* and matches; one built as Any(a).or(b)... matches iff at least one of the filters
\* handed to Any and or matches; Not(a) matches iff a does not match. Holds for
\* chains of every length.
C4_FilterAlgebra ==
    fresult # None =>
        /\ filter[1].kind = "All" =>
              fresult[1] = (\A i \in 1..Len(fargs) : check(fargs[i], freq[1]))
        /\ filter[1].kind = "Any" =>
              fresult[1] = (\E i \in 1..Len(fargs) : check(fargs[i], freq[1]))
        /\ filter[1].kind = "Not" =>
              /\ Len(fargs) = 1
              /\ fresult[1] = ~check(fargs[1], freq[1])

\* All(a).and(b) where a matches and b does not
C4_Witness ==
    /\ fresult # None
    /\ filter[1].kind = "All"
    /\ Len(fargs) = 2
    /\ check(fargs[1], freq[1])
    /\ ~check(fargs[2], freq[1])
    /\ fresult[1] = FALSE

RECURSIVE NodeAt(_, _)
\* the filter at a path below f
NodeAt(f, path) == IF path = <<>> THEN f ELSE NodeAt(f.fs[Head(path)], Tail(path))

\* the members of the filter at path whose check was called, in call order
MembersCalled(path) ==
    LET sel == SelectSeq(fcalls, LAMBDA q : /\ Len(q) = Len(path) + 1
                                           /\ SubSeq(q, 1, Len(path)) = path)
    IN [k \in 1..Len(sel) |-> sel[k][Len(sel[k])]]

\* the members that decide the filter's answer on the request: those that do not
\* match for All, those that match for Any
Deciding(f, req) ==
    {i \in 1..Len(f.fs) : check(f.fs[i], req) = (f.kind = "Any")}

\* the first deciding member, the last member when none decides
LastToCheck(f, req) ==
    IF Deciding(f, req) = {} THEN Len(f.fs)
    ELSE CHOOSE i \in Deciding(f, req) : \A j \in Deciding(f, req) : i <= j

C28_ShortCircuitInOrder ==
    fresult # None =>
        \A p \in 1..Len(fcalls) :
            NodeAt(filter[1], fcalls[p]).kind \in {"All", "Any"} =>
                MembersCalled(fcalls[p]) =
                    UpTo(LastToCheck(NodeAt(filter[1], fcalls[p]), freq[1]))

\* an All chain of three whose second member does not match: the third is not called
C28_Witness ==
    /\ fresult # None
    /\ filter[1].kind = "All"
    /\ Len(filter[1].fs) = 3
    /\ check(filter[1].fs[1], freq[1])
    /\ ~check(filter[1].fs[2], freq[1])
    /\ check(filter[1].fs[3], freq[1])
    /\ MembersCalled(<<>>) = <<1, 2>>

(***************************************************************************)
(* Properties of the tuple extraction join (SpecTuple)                     *)
(***************************************************************************)
Arity == Len(tup[1].items)

\* C5: a poll that returns Ready returns, at every position i, the value member i's
\* future returned, whatever the order in which the members became ready.
C5_TupleInDeclarationOrder ==
    (tresult # None /\ tresult[1].kind = "Ready") =>
        /\ Len(tresult[1].tuple) = Arity
        /\ \A i \in 1..Arity :
              /\ returned[i] # None
              /\ returned[i][1].kind = "Ready"
              /\ tresult[1].tuple[i] = returned[i][1].v

\* (A, B): B was ready in an earlier poll than A, and their values differ
C5_Witness ==
    /\ tresult # None
    /\ tresult[1].kind = "Ready"
    /\ Arity = 2
    /\ polled = <<1>>
    /\ tresult[1].tuple = <<"v1", "v2">>

\* C6: a poll returns Ready only when every member future has returned Ready, and
\* then with a value at every position; while some member has not returned Ready
\* the poll returns NotReady or an error.
C6_ReadyOnlyWhenAllFilled ==
    tresult # None =>
        /\ tresult[1].kind = "Ready" =>
              /\ \A i \in 1..Arity : tup[1].futs[i] = "ready"
              /\ Len(tresult[1].tuple) = Arity
              /\ \A i \in 1..Arity : tresult[1].tuple[i] \in Values
        /\ (\E i \in 1..Arity : tup[1].futs[i] # "ready") =>
              tresult[1].kind \in {"NotReady", "Err"}

\* the first of three members is ready, the others are not: the poll says NotReady
C6_Witness ==
    /\ tresult # None
    /\ Arity = 3
    /\ tup[1].items[1] # None
    /\ tup[1].items[2] = None
    /\ tresult[1].kind = "NotReady"

\* C7: the poll in which a member future returns an error returns that error (as
\* converted by into()) at once, whatever the other members returned or hold.
C7_MemberErrorFailsJoin ==
    tresult # None =>
        \A i \in 1..Arity :
            (returned[i] # None /\ returned[i][1].kind = "Err") =>
                /\ tresult[1].kind = "Err"
                /\ tresult[1].err = IntoError(returned[i][1].v)
                /\ polled # <<>>
                /\ polled[Len(polled)] = i

\* member 2 of 3 fails while member 1 is still pending
C7_Witness ==
    /\ tresult # None
    /\ Arity = 3
    /\ returned[1] # None
    /\ returned[1][1].kind = "NotReady"
    /\ returned[2] # None
    /\ returned[2][1].kind = "Err"
    /\ tresult[1].kind = "Err"
    /\ tresult[1].err = IntoError(returned[2][1].v)

\* a step of the tuple future (the Option and Result futures stay as they are)
TupleStep == UNCHANGED <<wrapped, wreturned, wresult>>

EmptySlots(t) == SelectSeq(UpTo(Len(t.items)), LAMBDA k : t.items[k] = None)

\* C8 as claimed: every member future exists from from_request on, and every poll
\* polls each member whose slot was empty when the poll began.
C8_EveryEmptySlotPolledInEveryPoll ==
    /\ [](tup # None => \A i \in 1..Arity : tup[1].futs[i] \in {"started", "ready", "failed"})
    /\ [][(tup # None /\ tresult' # None /\ TupleStep) => polled' = EmptySlots(tup[1])]_vars

\* C8 as amended: every member future exists from from_request on; a poll that does
\* not end with a member's error polls exactly the members whose slot was empty when
\* it began, in position order, also those behind a member that returned NotReady; a
\* poll that ends with a member's error polls the empty-slot members up to and
\* including the failing one and none after it.
C8_EveryEmptySlotPolled ==
    /\ [](tup # None => \A i \in 1..Arity : tup[1].futs[i] \in {"started", "ready", "failed"})
    /\ [][(tup # None /\ tresult' # None /\ TupleStep) =>
             IF tresult'[1].kind # "Err"
             THEN polled' = EmptySlots(tup[1])
             ELSE \E m \in 1..Len(EmptySlots(tup[1])) :
                     /\ polled' = SubSeq(EmptySlots(tup[1]), 1, m)
                     /\ tup'[1].futs[EmptySlots(tup[1])[m]] = "failed"]_vars

\* member 1 returned NotReady and member 2 was polled in the same poll
C8_Witness ==
    /\ tresult # None
    /\ Arity >= 2
    /\ InSeq(1, polled)
    /\ InSeq(2, polled)
    /\ returned[1][1].kind = "NotReady"
    /\ returned[2][1].kind = "Ready"

\* C29: a poll of the join polls no member that has returned Ready in an earlier poll
\* of the join: the members it polls are among those whose slot was empty.
C29_ReadyMemberNotPolledAgain ==
    [][(tup # None /\ tresult' # None /\ TupleStep) =>
          \A k \in 1..Len(polled') :
              /\ tup[1].items[polled'[k]] = None
              /\ IF returned[polled'[k]] = None THEN TRUE
                 ELSE returned[polled'[k]][1].kind # "Ready"]_vars

\* member 1 returned Ready in an earlier poll; the last poll polled members 2 and 3
C29_Witness ==
    /\ tresult # None
    /\ Arity = 3
    /\ polled = <<2, 3>>
    /\ returned[1] # None
    /\ returned[1][1].kind = "Ready"
    /\ tresult[1].kind = "NotReady"

\* the members whose future fails in the last poll cycle: those polled that returned
\* an error and those left unpolled whose future would have returned one
FailingMembers ==
    {k \in 1..Arity :
        \/ InSeq(k, polled) /\ returned[k][1].kind = "Err"
        \/ IF skipped[k] = None THEN FALSE ELSE skipped[k][1].kind = "Err"}

LowestFailing == CHOOSE m \in FailingMembers : \A k \in FailingMembers : m <= k

\* C32: when member futures fail in the same poll cycle, the poll returns the error of
\* the failing member at the lowest position, which it has polled, and has polled no
\* member at a higher position; a member with an empty slot is left unpolled only
\* behind a member that failed.
C32_LowestPositionErrorWins ==
    tresult # None =>
        /\ FailingMembers # {} =>
              /\ InSeq(LowestFailing, polled)
              /\ tresult[1].kind = "Err"
              /\ tresult[1].err = IntoError(returned[LowestFailing][1].v)
              /\ \A k \in 1..Arity : InSeq(k, polled) => k <= LowestFailing
        /\ (\E k \in 1..Arity : skipped[k] # None) => tresult[1].kind = "Err"

\* members 2 and 3 of three fail in the same cycle with different errors: the poll
\* returns the error of member 2 and has not polled member 3
C32_Witness ==
    /\ tresult # None
    /\ Arity = 3
    /\ polled = <<1, 2>>
    /\ returned[2] = Some([kind |-> "Err", v |-> "e2"])
    /\ skipped[3] = Some([kind |-> "Err", v |-> "e1"])
    /\ tresult[1].kind = "Err"
    /\ tresult[1].err = IntoError("e2")

\* C39: a join that is polled again whenever it returned NotReady, and whose member
\* futures return Ready in the end, returns Ready with a value at every position,
\* unless a member fails; it does not stay NotReady for ever. (SpecTupleLive)
C39_JoinCompletes ==
    (tup # None /\ tup[1].state = "NotReady") ~>
        \/ /\ tresult # None
           /\ tresult[1].kind = "Ready"
           /\ Len(tresult[1].tuple) = Arity
        \/ tresult # None /\ tresult[1].kind = "Err"

\* members 1 and 3 of three were ready in earlier polls, in which the join returned
\* NotReady; the poll in which member 2 is ready returns the tuple
C39_Witness ==
    /\ tresult # None
    /\ Arity = 3
    /\ polled = <<2>>
    /\ tresult[1].kind = "Ready"
    /\ Len(tresult[1].tuple) = 3

(***************************************************************************)
(* Properties of the Option and Result extractors (SpecTuple)              *)
(***************************************************************************)
WrappedPolled(kind) == wresult # None /\ wrapped[1].kind = kind

\* C13: the future of Option<T> never fails: it resolves to Some(v) when T's future
\* resolves to v and to None when T's future fails, whatever the error, and stays
\* pending while T's future is pending.
C13_OptionNeverFails ==
    WrappedPolled("Option") =>
        /\ wresult[1].kind # "Err"
        /\ wreturned[1].kind = "Ready" =>
              wresult[1] = [kind |-> "Ready", item |-> Some(wreturned[1].v), err |-> <<>>]
        /\ wreturned[1].kind = "Err" =>
              wresult[1] = [kind |-> "Ready", item |-> None, err |-> <<>>]
        /\ wreturned[1].kind = "NotReady" => wresult[1].kind = "NotReady"

\* T's extraction fails with e2 and Option<T> resolves to None
C13_Witness ==
    /\ WrappedPolled("Option")
    /\ wreturned[1] = [kind |-> "Err", v |-> "e2"]
    /\ wresult[1].kind = "Ready"
    /\ wresult[1].item = None

\* C14: the future of Result<T, T::Error> never fails: it resolves to Ok(v) when T's
\* future resolves to v and to Err(e), with T's own error e as it is, when T's future
\* fails with e.
C14_ResultNeverFails ==
    WrappedPolled("Result") =>
        /\ wresult[1].kind # "Err"
        /\ wreturned[1].kind = "Ready" =>
              wresult[1] = [kind |-> "Ready", item |-> <<"Ok", wreturned[1].v>>, err |-> <<>>]
        /\ wreturned[1].kind = "Err" =>
              wresult[1] = [kind |-> "Ready", item |-> <<"Err", wreturned[1].v>>, err |-> <<>>]
        /\ wreturned[1].kind = "NotReady" => wresult[1].kind = "NotReady"

\* T's extraction fails with e1 and Result<T, T::Error> resolves to Err(e1)
C14_Witness ==
    /\ WrappedPolled("Result")
    /\ wreturned[1] = [kind |-> "Err", v |-> "e1"]
    /\ wresult[1].kind = "Ready"
    /\ wresult[1].item = <<"Err", "e1">>

(***************************************************************************)
(* Properties of PayloadConfig and of Path<T> (SpecExtract)                *)
(***************************************************************************)
\* the Content-Type line of the request, if it has one
Declared(req) == HeaderMapGet(req.headers, CONTENT_TYPE)

\* the request declares a Content-Type that is the configured Mime
DeclaresConfigured(cfg, req) ==
    IF Declared(req) = None THEN FALSE
    ELSE IF MimeFromStr(Declared(req)[1])[1] = "Err" THEN FALSE
    ELSE MimeFromStr(Declared(req)[1])[2] = cfg.mimetype[1]

\* no mime type is configured or the request declares the configured one
MimetypeAccepted(cfg, req) ==
    IF cfg.mimetype = None THEN TRUE ELSE DeclaresConfigured(cfg, req)

\* C25: check_mimetype is Ok exactly for the requests accepted above; for any other
\* request the future returned by from_request of Bytes and of String is the error
\* itself: it holds no body reader, never reads the body, and a poll returns the error.
C25_MimetypeCheckedBeforeBody ==
    payloadIn # None =>
        /\ (check_mimetype(payloadCfg, payloadIn[1])[1] = "Ok")
               <=> MimetypeAccepted(payloadCfg, payloadIn[1])
        /\ ~MimetypeAccepted(payloadCfg, payloadIn[1]) =>
               /\ payloadFut[1].either = "B"
               /\ payloadFut[1].body = None
               /\ ~payloadFut[1].read
               /\ payloadFut[1].err = check_mimetype(payloadCfg, payloadIn[1])[2]
               /\ payloadRes # None =>
                      (payloadRes[1].kind = "Err" /\ payloadRes[1].err = payloadFut[1].err)

\* application/json is required, the request is form-encoded, and the poll of the
\* Bytes future failed without a read of the body
C25_Witness ==
    /\ payloadCfg.mimetype = Some(APPLICATION_JSON)
    /\ payloadIn # None
    /\ Declared(payloadIn[1]) = Some("application/x-www-form-urlencoded")
    /\ payloadFut[1].kind = "Bytes"
    /\ payloadRes # None
    /\ payloadRes[1].kind = "Err"
    /\ payloadRes[1].err = ErrorBadRequest("Unexpected Content-Type")
    /\ ~payloadFut[1].read

\* the shape has a numeric field whose segment is not a number
NonNumericSegment(params, shape) ==
    \E i \in 1..Len(shape.fields) :
        /\ shape.fields[i][2] # "String"
        /\ LET k == IF shape.kind = "struct" THEN ParamIndex(params, shape.fields[i][1], 1)
                    ELSE i
           IN IF k = 0 \/ k > Len(params) THEN FALSE ELSE params[k][2] # "32"

\* C26: Path<T>::from_request is Ok exactly when the matched params deserialize into T,
\* with the deserialized value; a tuple of Strings holds the segments in the order of
\* the placeholders; a non-numeric segment for a numeric field fails; every failure is
\* an Error answered with 404.
C26_PathExtraction ==
    pathOut # None =>
        LET params == pathIn[1].params
            shape == pathIn[1].shape
        IN /\ pathOut[1].ok <=> (PathDeserialize(params, shape)[1] = "Ok")
           /\ pathOut[1].ok => pathOut[1].item.inner = PathDeserialize(params, shape)[2]
           /\ (pathOut[1].ok /\ shape.kind = "tuple") =>
                  \A i \in 1..Len(shape.fields) :
                      shape.fields[i][2] = "String" =>
                          pathOut[1].item.inner[i] = <<"String", params[i][2]>>
           /\ NonNumericSegment(params, shape) => ~pathOut[1].ok
           /\ ~pathOut[1].ok => pathOut[1].err.status = 404

\* /{key}/{value}/ matched on /name/user1/ and extracted as (String, u8)
C26_Witness ==
    /\ pathOut # None
    /\ pathIn[1].params = <<<<"key", "name">>, <<"value", "user1">>>>
    /\ pathIn[1].shape = [kind |-> "tuple", fields |-> <<<<"0", "String">>, <<"1", "u8">>>>]
    /\ ~pathOut[1].ok
    /\ pathOut[1].err = ErrorNotFound("invalid digit found in string")

(***************************************************************************)
(* Properties of DefaultHeaders (SpecHeaders)                              *)
(***************************************************************************)
Resolved == outRes # None /\ innerRes[1].ok /\ innerRes[1].variant = "Response"
ConfiguredValues(k) == {p[2] : p \in {HeaderMapIter(usedInner[1].headers)[j] :
                                          j \in 1..Len(HeaderMapIter(usedInner[1].headers))}
                                 \cap ({k} \X DhValues)}

\* C9: a header the inner response carries keeps the inner service's values; a
\* configured header the inner response lacks appears with one value, a configured one.
C9_NeverOverwrites ==
    Resolved =>
        \A k \in DhNames :
            /\ ContainsKey(innerRes[1].headers, k) =>
                  HeaderMapGetAll(outRes[1].headers, k) = HeaderMapGetAll(innerRes[1].headers, k)
            /\ (ContainsKey(usedInner[1].headers, k) /\ ~ContainsKey(innerRes[1].headers, k)) =>
                  /\ Len(HeaderMapGetAll(outRes[1].headers, k)) = 1
                  /\ HeaderMapGetAll(outRes[1].headers, k)[1] \in ConfiguredValues(k)

\* x-version is configured as 1 and the inner response carries x-version=existing
C9_Witness ==
    /\ Resolved
    /\ HeaderMapGetAll(usedInner[1].headers, "x-version") = <<"1">>
    /\ HeaderMapGetAll(innerRes[1].headers, "x-version") = <<"existing">>
    /\ HeaderMapGetAll(outRes[1].headers, "x-version") = <<"existing">>

\* C34: when a header name is configured more than once and the inner response lacks
\* the name, the response carries exactly one value for it, the first one configured.
C34_FirstConfiguredValueOnly ==
    Resolved =>
        \A k \in DhNames :
            (/\ Len(HeaderMapGetAll(usedInner[1].headers, k)) > 1
             /\ ~ContainsKey(innerRes[1].headers, k)) =>
                HeaderMapGetAll(outRes[1].headers, k) =
                    <<HeaderMapGetAll(usedInner[1].headers, k)[1]>>

\* x-version is configured as 0001 and then as 1, the inner response has no x-version
\* and the response carries x-version=0001 alone
C34_Witness ==
    /\ Resolved
    /\ HeaderMapGetAll(usedInner[1].headers, "x-version") = <<"0001", "1">>
    /\ ~ContainsKey(innerRes[1].headers, "x-version")
    /\ HeaderMapGetAll(outRes[1].headers, "x-version") = <<"0001">>

\* C10: the response gets Content-Type application/octet-stream exactly when the flag
\* is set and neither the inner response nor a configured header supplies a
\* Content-Type; otherwise its Content-Type is the inner response's, else the
\* configured one, else none.
C10_DefaultContentType ==
    Resolved =>
        IF /\ usedInner[1].ct
           /\ ~ContainsKey(innerRes[1].headers, CONTENT_TYPE)
           /\ ~ContainsKey(usedInner[1].headers, CONTENT_TYPE)
        THEN HeaderMapGetAll(outRes[1].headers, CONTENT_TYPE) = <<OctetStream>>
        ELSE HeaderMapGetAll(outRes[1].headers, CONTENT_TYPE) =
                 IF ContainsKey(innerRes[1].headers, CONTENT_TYPE)
                 THEN HeaderMapGetAll(innerRes[1].headers, CONTENT_TYPE)
                 ELSE IF ContainsKey(usedInner[1].headers, CONTENT_TYPE)
                 THEN <<usedInner[1].headers[IndexOfKey(usedInner[1].headers, CONTENT_TYPE)].values[1]>>
                 ELSE <<>>

\* the flag is set and the response comes back without a Content-Type
C10_Witness ==
    /\ Resolved
    /\ usedInner[1].ct
    /\ ~ContainsKey(innerRes[1].headers, CONTENT_TYPE)
    /\ ~ContainsKey(usedInner[1].headers, CONTENT_TYPE)
    /\ HeaderMapGet(outRes[1].headers, CONTENT_TYPE) = Some(OctetStream)

\* C21: while more than one handle on the Inner exists (a clone, or the clone call
\* took for a future in flight) no step changes the header set or the flag: header()
\* and content_type() panic instead; the Inner a call in flight was made under is
\* still the Inner when its closure runs.
C21_SharedConfigurationNeverChanges ==
    [][/\ rc > 1 => inner' = inner
       /\ \A j \in 1..Len(inflight') : inflight'[j].cfg = inner']_vars

\* a header was configured, a call is in flight, and a further header() panicked
C21_Witness ==
    /\ panicked
    /\ rc > 1
    /\ inner.headers # HeaderMapNew
    /\ Len(inflight) = 1
    /\ inflight[1].cfg = inner

\* C22: the future returned by call resolves to the inner service's error when the
\* inner call fails and to the inner service's value when that is not the Response
\* variant, in both cases with no header added; call hands the inner service the
\* request it was given, once.
C22_PropagatesInnerOutcome ==
    /\ \A j \in 1..Len(inflight) : inflight[j].srv = <<inflight[j].req>>
    /\ outRes # None =>
           ((~innerRes[1].ok \/ innerRes[1].variant # "Response") => outRes = innerRes)

\* the inner call failed with e1 under a configuration with a header and the flag
C22_Witness ==
    /\ outRes # None
    /\ innerRes[1] = [ok |-> FALSE, variant |-> "", headers |-> <<>>, err |-> "e1"]
    /\ usedInner[1].ct
    /\ usedInner[1].headers # HeaderMapNew
    /\ outRes = innerRes

\* C23: poll_ready returns Ready whenever it is called.
C23_AlwaysReady == readiness # None => readiness = Some("Ready")

\* poll_ready was called with a call in flight and a configuration with a header
C23_Witness ==
    /\ readiness = Some("Ready")
    /\ Len(inflight) = 1
    /\ inner.headers # HeaderMapNew
    /\ inner.ct

(***************************************************************************)
(* Properties of the leaf filters (SpecFilter)                             *)
(***************************************************************************)
\* the last check ran on a filter made by the constructor function of this name
CheckedCtor(name) == fresult # None /\ fctor[1].name = name

\* C11: Host(h) matches a request whose Host is h and does not match a request whose
\* Host is another name (or that carries no Host).
C11_HostMatchesItsHost ==
    (CheckedCtor("Host") /\ filter[1].b = "None") =>
        fresult[1] = (HeaderMapGet(freq[1].headers, HOST) = Some(fctor[1].a))

MethodOfCtor ==
    [Get |-> "GET", Post |-> "POST", Put |-> "PUT", Delete |-> "DELETE", Head |-> "HEAD",
     Options |-> "OPTIONS", Connect |-> "CONNECT", Patch |-> "PATCH", Trace |-> "TRACE"]

\* C19: a filter made by Get, Post, Put, Delete, Head, Options, Connect, Patch or Trace
\* matches a request iff the request's method is the method of that name, and one
\* made by Method(m) iff the request's method is m.
C19_MethodFilterMatchesItsMethod ==
    fresult # None =>
        /\ fctor[1].name \in DOMAIN MethodOfCtor =>
              fresult[1] = (freq[1].method = MethodOfCtor[fctor[1].name])
        /\ fctor[1].name = "Method" => fresult[1] = (freq[1].method = fctor[1].a)

\* Get() declines a HEAD request
C19_Witness ==
    /\ CheckedCtor("Get")
    /\ freq[1].method = "HEAD"
    /\ fresult[1] = FALSE

\* C20: Header(name, value) matches a request iff the request carries a header of
\* that name whose value is the configured value; a request without the header, or
\* with only other values for it, does not match.
C20_HeaderMatchesCarriedValue ==
    CheckedCtor("Header") =>
        fresult[1] = InSeq(fctor[1].b,
                           HeaderMapGetAll(freq[1].headers, HeaderNameTryFrom(fctor[1].a)))

(***************************************************************************)
(* Properties of FramedRouteService::handle (SpecFramed)                   *)
(***************************************************************************)
Handled == fin # None /\ fin[1].op = "handle"
\* the method list of the compiled route lets the request of the last operation pass
MethodAllowed ==
    fservice[1].methods = <<>> \/ InSeq(fin[1].req.method, fservice[1].methods)
PatternMatch == MatchWithParams(fservice[1].pattern, fin[1].req)

\* C18: handle returns Ok iff the method list is empty or holds the request's method,
\* and the pattern matches; then the inner service is called with the request, the
\* params of the match and the framed transport; otherwise the inner service is not
\* called and the request and the framed transport are handed back as they came.
C18_HandleAcceptsOnMethodAndPattern ==
    Handled =>
        /\ fout[1].ok = (MethodAllowed /\ PatternMatch # None)
        /\ fout[1].ok =>
              /\ fout[1].call = Some(InnerCall(fin[1].req, PatternMatch[1], fin[1].framed))
              /\ fout[1].back = None
        /\ ~fout[1].ok =>
              /\ fout[1].call = None
              /\ fout[1].back = Some(<<fin[1].req, fin[1].framed>>)

\* a route for GET on /{key}/ declines POST /name/ although the pattern matches
C18_Witness ==
    /\ Handled
    /\ fservice[1].methods = <<"GET">>
    /\ fin[1].req.method = "POST"
    /\ fin[1].req.path = "/name/"
    /\ PatternMatch = Some(<<<<"key", "name">>>>)
    /\ ~fout[1].ok
    /\ fout[1].back = Some(<<fin[1].req, fin[1].framed>>)

(***************************************************************************)
(* Properties of FramedRouteService::call and of the header list           *)
(* (SpecFramed)                                                            *)
(***************************************************************************)
Called == fin # None /\ fin[1].op = "call"

\* C37: call hands every request to the inner service, with empty Params and the
\* framed transport it was given, whatever the method list and the pattern of the
\* route; handle declines a request that the method list or the pattern rejects.
C37_CallSkipsChecks ==
    /\ Called =>
          /\ fout[1].ok
          /\ fout[1].call = Some(InnerCall(fin[1].req, ParamsNew, fin[1].framed))
          /\ fout[1].back = None
    /\ (Handled /\ ~(MethodAllowed /\ PatternMatch # None)) => ~fout[1].ok

\* a route for GET on /index is called with DELETE /a/b: the inner service is called
C37_Witness ==
    /\ Called
    /\ fservice[1].methods = <<"GET">>
    /\ fservice[1].pattern = ResourcePatternNew("/index")
    /\ fin[1].req.method = "DELETE"
    /\ fin[1].req.path = "/a/b"
    /\ fout[1].call = Some(InnerCall(fin[1].req, ParamsNew, fin[1].framed))

\* the header lists a route may hold
FramedHeaderLists ==
    {<<>>} \cup {<<p>> : p \in FramedHeaderPairs}
        \cup {<<p, q>> : p \in FramedHeaderPairs, q \in FramedHeaderPairs}

\* C38: the header list goes unchanged from the route to the factory, to the
\* construction future and to the compiled service, and handle returns for a request
\* what it returns with any other header list in the place of the route's.
C38_HeadersCarriedAndIgnored ==
    [][/\ IF froute # None /\ froute' = None
          THEN ffactory'[1].headers = froute[1].headers
          ELSE TRUE
       /\ IF fcreate' # None THEN fcreate'[1].headers = ffactory'[1].headers ELSE TRUE
       /\ IF fservice' # None THEN fservice'[1].headers = ffactory'[1].headers ELSE TRUE
       /\ IF fin' # None /\ fin'[1].op = "handle"
          THEN \A h \in FramedHeaderLists :
                  fout'[1] = FramedRouteServiceHandle([fservice'[1] EXCEPT !.headers = h],
                                                      fin'[1].req, fin'[1].framed)
          ELSE TRUE]_vars

\* a route that names upgrade: websocket accepts a request without that header
C38_Witness ==
    /\ Handled
    /\ fservice[1].headers = <<<<"upgrade", "websocket">>>>
    /\ fin[1].req.headers = <<>>
    /\ fout[1].ok

====
